---- MODULE Spec2Model ----
(***************************************************************************)
(* Verification model of lloyds-market-news-digest:                        *)
(*   - scoring/heuristics.py      evaluate_text                            *)
(*   - scoring/method_prefs.py    select_method_prefs, _build_prefs        *)
(*   - storage/postgres_repo.py   record_method_attempt, update_domain_prefs*)
(*   - extractors/engine.py       ExtractionEngine.run, _order_extractors  *)
(*   - scripts/render_digest_llm_compare.py  _dedupe_items and helpers     *)
(*                                                                         *)
(* Conventions.  Python None of a record-valued field is the empty         *)
(* sequence <<>> and a present value v is <<v>>; None of a datetime or an  *)
(* integer is NoTime.  Datetimes are whole hours.  A float success rate    *)
(* s/a is kept as the pair <<s, a>> and compared by cross multiplication   *)
(* (exact for the attempt counts the model reaches).                       *)
(***************************************************************************)
EXTENDS Integers, Sequences, FiniteSets, TLC

VARIABLES
    stats,      \* domain_method_stats: domain -> method -> row
    prefs,      \* domain_method_prefs: domain -> <<>> or <<MethodPrefs>>
    articles,   \* articles table: candidate_id -> <<>> or <<ArticleRecord>>
    now,        \* wall clock (_utc_now), in hours
    pc,         \* position of the (single, sequential) ExtractionEngine.run
    cand,       \* the candidate of the current run
    order,      \* extractor order chosen for the current run
    idx,        \* index into order of the next extractor to invoke
    runLog,     \* attempts rows inserted by the current run (insert_attempt)
    article,    \* local variable of run: the article built on ACCEPT
    returned,   \* value returned by the last finished run: <<>> or <<ArticleRecord>>
    runs,       \* number of runs started so far
    sel,        \* inputs and result of a select_method_prefs call (SelSpec)
    dd,         \* input and results of a call of the digest script's item
                \* functions (DedupSpec, CapSpec)
    pipe,       \* the pipeline's step on one candidate: run() and
                \* _article_to_items (PipeSpec)
    heur        \* input and result of an evaluate_text call (HeurSpec)

vars == <<stats, prefs, articles, now, pc, cand, order, idx, runLog, article, returned,
         runs, sel, dd, pipe, heur>>

-----------------------------------------------------------------------------
(* Bounds of the model *)

\* number of extraction runs started in one behaviour
MaxRuns == 4

\* the clock stops advancing here
MaxTime == 48

\* longest list of digest items given to _dedupe_items
MaxItems == 4

-----------------------------------------------------------------------------
(* Program constants *)

min_chars == 400
min_words == 60
min_attempts == 3
cooldown_hours == 24
promote_margin_num == 15
promote_margin_den == 100
min_success_rate_num == 4
min_success_rate_den == 10
history_window == 25

NoTime == -1

Min(a, b) == IF a <= b THEN a ELSE b

-----------------------------------------------------------------------------
(* scoring/heuristics.py *)

\* thresholds that count a text with exactly min_chars characters or
\* exactly min_words words as too short (faulty variant of evaluate_text)
evaluate_text_above_thresholds(text, thr_chars, thr_words) ==
    LET score == IF text.chars * thr_words <= text.words * thr_chars
                 THEN <<text.chars, thr_chars>>
                 ELSE <<text.words, thr_words>>
    IN  IF text.chars = 0
        THEN [decision |-> "TOO_SHORT", score |-> <<0, 1>>]
        ELSE IF text.chars <= thr_chars \/ text.words <= thr_words
        THEN [decision |-> "TOO_SHORT", score |-> score]
        ELSE [decision |-> "ACCEPT", score |-> score]

\* A text is described by what evaluate_text reads of it: the length of the
\* stripped text and its number of whitespace-separated words.
\* The score min(chars/min_chars, words/min_words) is returned as the exact
\* fraction <<numerator, denominator>>.
evaluate_text(text, thr_chars, thr_words) ==
    LET char_count == text.chars
        word_count == text.words
        score == IF char_count * thr_words <= word_count * thr_chars
                 THEN <<char_count, thr_chars>>
                 ELSE <<word_count, thr_words>>
    IN  IF char_count = 0
        THEN [decision |-> "TOO_SHORT", score |-> <<0, 1>>]
        ELSE IF char_count < thr_chars \/ word_count < thr_words
        THEN [decision |-> "TOO_SHORT", score |-> score]
        ELSE [decision |-> "ACCEPT", score |-> score]

-----------------------------------------------------------------------------
(* scoring/method_prefs.py *)

NoMedian == -1

\* MethodStats.success_rate, as the fraction <<successes, attempts>>
success_rate(s) ==
    IF s.attempts <= 0 THEN <<0, 1>> ELSE <<s.successes, s.attempts>>

RateLt(r1, r2) == r1[1] * r2[2] < r2[1] * r1[2]

RateEq(r1, r2) == r1[1] * r2[2] = r2[1] * r1[2]

\* (s.median_duration_ms or 0)
MedianOrZero(s) ==
    IF s.median_duration_ms = NoMedian THEN 0 ELSE s.median_duration_ms

\* a sort key of the success rate alone (faulty variant of KeyGt)
KeyGtRateOnly(a, b) == RateLt(success_rate(b), success_rate(a))

\* the sort key (success_rate, -(median_duration_ms or 0)) of a is greater than that of b
KeyGt(a, b) ==
    \/ RateLt(success_rate(b), success_rate(a))
    \/ /\ RateEq(success_rate(a), success_rate(b))
       /\ (0 - MedianOrZero(a)) > (0 - MedianOrZero(b))

\* list.sort(key=..., reverse=True): descending and stable (equal keys keep
\* their input order); the element at input position i goes behind every
\* element that sorts before it
SortDesc(seq) ==
    LET n == Len(seq)
        SortsBefore(i, j) ==
            \/ KeyGt(seq[i], seq[j])
            \/ ~KeyGt(seq[j], seq[i]) /\ i < j
        Position(i) == 1 + Cardinality({j \in 1..n : j # i /\ SortsBefore(j, i)})
    IN  [k \in 1..n |-> seq[CHOOSE i \in 1..n : Position(i) = k]]

\* one attempt is enough to be ranked (faulty variant of IsEligible)
AnyAttemptIsEligible(s) == s.attempts >= 1

IsEligible(s) == s.attempts >= min_attempts

RECURSIVE GCD(_, _)
GCD(a, b) == IF b = 0 THEN a ELSE GCD(b, a % b)

\* the float value of a rate: equal floats <=> equal reduced fractions
RateValue(r) ==
    IF r[1] = 0 THEN <<0, 1>>
    ELSE LET g == GCD(r[1], r[2]) IN <<r[1] \div g, r[2] \div g>>

\* f"{rate:.2f}" as hundredths (no rate of the model lies on a rounding tie)
TwoDecimals(r) == (200 * r[1] + r[2]) \div (2 * r[2])

MethodNames(seq) == [i \in 1..Len(seq) |-> seq[i].method]

_build_prefs(domain, primary, eligible, changed_at, cooldown) ==
    LET NotPrimary(st) == st.method # primary.method
        fallback == MethodNames(SelectSeq(eligible, NotPrimary))
        rate == success_rate(primary)
        drift_flag == rate[1] * min_success_rate_den < min_success_rate_num * rate[2]
    IN  [domain |-> domain,
         primary_method |-> primary.method,
         fallback_methods |-> fallback,
         confidence |-> RateValue(rate),
         last_changed_at |-> changed_at,
         locked_until |->
             IF cooldown # NoTime /\ cooldown # 0 THEN changed_at + cooldown ELSE NoTime,
         drift_flag |-> drift_flag,
         drift_notes |-> IF drift_flag THEN TwoDecimals(rate) ELSE NoTime]

\* a lock test with the comparison turned round (faulty variant of LockActive)
LockComparedBackwards(current, t) ==
    /\ current # <<>>
    /\ current[1].locked_until # NoTime
    /\ current[1].locked_until < t

\* a lock that never holds a decision back (faulty variant of LockActive)
LockNeverActive(current, t) == FALSE

\* current.locked_until and current.locked_until > now
LockActive(current, t) ==
    /\ current # <<>>
    /\ current[1].locked_until # NoTime
    /\ current[1].locked_until > t

\* promotion of any strictly better method (faulty variant of BeatsByMargin)
BeatsWithoutMargin(best, current_stat) ==
    RateLt(success_rate(current_stat), success_rate(best))

\* best.success_rate >= current_stat.success_rate + promote_margin
BeatsByMargin(best, current_stat) ==
    LET b == success_rate(best)
        c == success_rate(current_stat)
    IN  b[1] * c[2] * promote_margin_den
            >= c[1] * b[2] * promote_margin_den + promote_margin_num * b[2] * c[2]

\* select_method_prefs(domain, stats, current, now) with the default keyword
\* arguments; stats is the list of MethodStats in the order given, current is
\* <<>> or <<MethodPrefs>>; the result is <<>> (None) or <<MethodPrefs>>.
select_method_prefs(domain, stats_list, current, t) ==
    LET eligible == SortDesc(SelectSeq(stats_list, IsEligible))
    IN  IF eligible = <<>> THEN current
        ELSE
        LET best == eligible[1]
            IsCurrent(st) == current # <<>> /\ st.method = current[1].primary_method
            found == SelectSeq(eligible, IsCurrent)
        IN  IF LockActive(current, t) THEN current
            ELSE IF current # <<>> /\ found # <<>>
            THEN LET current_stat == found[1]
                 IN  IF best.method # current[1].primary_method
                        /\ BeatsByMargin(best, current_stat)
                     THEN <<_build_prefs(domain, best, eligible, t, cooldown_hours)>>
                     ELSE <<_build_prefs(domain, current_stat, eligible,
                                IF current[1].last_changed_at # NoTime
                                THEN current[1].last_changed_at ELSE t,
                                NoTime)>>
            ELSE <<_build_prefs(domain, best, eligible, t, cooldown_hours)>>

-----------------------------------------------------------------------------
(* storage/postgres_repo.py *)

\* sorted(values): ascending and stable
SortAsc(seq) ==
    LET n == Len(seq)
        SortsBefore(i, j) ==
            \/ seq[i] < seq[j]
            \/ seq[i] = seq[j] /\ i < j
        Position(i) == 1 + Cardinality({j \in 1..n : j # i /\ SortsBefore(j, i)})
    IN  [k \in 1..n |-> seq[CHOOSE i \in 1..n : Position(i) = k]]

_median(values) ==
    LET sorted_values == SortAsc(values)
        mid == Len(sorted_values) \div 2
    IN  IF Len(sorted_values) % 2 = 1
        THEN sorted_values[mid + 1]
        ELSE (sorted_values[mid] + sorted_values[mid + 1]) \div 2

\* history[-25:]
LastN(seq, n) ==
    IF Len(seq) <= n THEN seq ELSE SubSeq(seq, Len(seq) - n + 1, Len(seq))

\* a (domain, method) pair without a row in domain_method_stats
NoRow == [attempts |-> 0, successes |-> 0, duration_history |-> <<>>,
          median_duration_ms |-> NoMedian]

\* an upsert that counts every attempt as a success (faulty variant of
\* record_method_attempt)
record_every_attempt_as_success(row, success, duration_ms) ==
    [attempts |-> row.attempts + 1,
     successes |-> row.successes + 1,
     duration_history |-> LastN(Append(row.duration_history, duration_ms), history_window),
     median_duration_ms |->
         _median(LastN(Append(row.duration_history, duration_ms), history_window))]

\* record_method_attempt: the row of (domain, method) after the upsert.
\* duration_ms is never None when the engine calls it.
\* (last_attempt_at / last_success_at are written but never read by the
\* selection and are not kept.)
record_method_attempt(row, success, duration_ms) ==
    LET history == LastN(IF row.attempts > 0 /\ row.duration_history # <<>>
                         THEN Append(row.duration_history, duration_ms)
                         ELSE <<duration_ms>>, history_window)
    IN  [attempts |-> row.attempts + 1,
         successes |-> row.successes + (IF success THEN 1 ELSE 0),
         duration_history |-> history,
         median_duration_ms |-> _median(history)]

\* a row of get_method_stats
MethodStatsOf(m, row) ==
    [method |-> m, attempts |-> row.attempts, successes |-> row.successes,
     median_duration_ms |-> row.median_duration_ms]

\* all orders in which a SELECT without ORDER BY may return the rows of S
RowOrders(S) ==
    {f \in [1..Cardinality(S) -> S] : \A i, j \in 1..Cardinality(S) : f[i] = f[j] => i = j}

\* get_method_stats(domain): the possible result lists
get_method_stats(table) ==
    LET present == {m \in DOMAIN table : table[m].attempts > 0}
    IN  {[i \in 1..Len(o) |-> MethodStatsOf(o[i], table[o[i]])] : o \in RowOrders(present)}

\* update_domain_prefs(domain): the possible new contents of the domain's
\* prefs row (unchanged when there are no stats or the selection is None)
update_domain_prefs(domain, table, current, t) ==
    {IF stats_list = <<>> THEN current
     ELSE LET new_prefs == select_method_prefs(domain, stats_list, current, t)
          IN  IF new_prefs = <<>> THEN current ELSE new_prefs
     : stats_list \in get_method_stats(table)}

-----------------------------------------------------------------------------
(* extractors/engine.py *)

\* the extractors registered by run_pipeline, in registration order
Extractors == <<"trafilatura", "readability", "bs4_heuristic", "crawl4ai">>

Methods == {Extractors[i] : i \in 1..Len(Extractors)}

\* a source_id is kept as its segments between ":" characters
Candidates ==
    {[candidate_id |-> "c1", source_id |-> <<"rss", "lloyds.com">>],
     [candidate_id |-> "c2", source_id |-> <<"manual">>]}

CandidateIds == {c.candidate_id : c \in Candidates}

NoDomain == <<>>

\* _extract_domain: None without a ":", otherwise what follows the first ":"
_extract_domain(source_id) ==
    IF Len(source_id) < 2 THEN NoDomain ELSE Tail(source_id)

\* truthiness of a domain: neither None nor the empty string
HasDomain(domain) == domain # NoDomain /\ domain # <<"">>

Domains == {_extract_domain(c.source_id) : c \in Candidates} \ {NoDomain}

\* what extract(html) can return: no text (library missing, nothing found,
\* the crawl4ai stub), a text one character short, a text at both thresholds
NoText == [chars |-> 0, words |-> 0]

ShortText == [chars |-> min_chars - 1, words |-> min_words]

GoodText == [chars |-> min_chars, words |-> min_words]

ExtractResults(m) ==
    IF m = "crawl4ai"
    THEN {[text |-> NoText, success |-> FALSE]}
    ELSE {[text |-> NoText, success |-> FALSE],
          [text |-> ShortText, success |-> TRUE],
          [text |-> GoodText, success |-> TRUE]}

\* extractors whose extract() calls library code outside any try/except
MayRaise(m) == m \in {"trafilatura", "readability", "bs4_heuristic"}

\* duration_ms of an attempt
Durations == {40}

Contains(seq, name) == \E i \in 1..Len(seq) : seq[i] = name

\* appending the names of a list one by one, each unless it is already in
\* the result ("if ... not in ordered: ordered.append(...)"): the first
\* occurrences, in their order
AppendMissing(ordered, names) ==
    LET all == ordered \o names
        keep == {i \in 1..Len(all) : \A j \in 1..(i - 1) : all[j] # all[i]}
    IN  [k \in 1..Cardinality(keep) |->
            all[CHOOSE i \in keep : Cardinality({j \in keep : j < i}) = k - 1]]

\* an order of the primary and its fallbacks only (faulty variant of
\* _order_extractors: the extractors not yet covered are left out)
_order_extractors_without_rest(extractors, domain_prefs) ==
    IF domain_prefs = <<>> THEN extractors
    ELSE LET p == domain_prefs[1]
             IsRegistered(name) == Contains(extractors, name)
             first == IF Contains(extractors, p.primary_method)
                      THEN <<p.primary_method>> ELSE <<>>
         IN  AppendMissing(first, SelectSeq(p.fallback_methods, IsRegistered))

\* an order that ignores the recorded fallbacks (faulty variant of
\* _order_extractors: the primary, then the registration order)
_order_extractors_ignoring_fallbacks(extractors, domain_prefs) ==
    IF domain_prefs = <<>> THEN extractors
    ELSE LET p == domain_prefs[1]
             first == IF Contains(extractors, p.primary_method)
                      THEN <<p.primary_method>> ELSE <<>>
         IN  AppendMissing(first, extractors)

\* _order_extractors(extractors, postgres, domain) given the stored prefs row
_order_extractors(extractors, domain_prefs) ==
    IF domain_prefs = <<>> THEN extractors
    ELSE LET p == domain_prefs[1]
             IsRegistered(name) == Contains(extractors, name)
             first == IF Contains(extractors, p.primary_method)
                      THEN <<p.primary_method>> ELSE <<>>
             with_fallback ==
                 AppendMissing(first, SelectSeq(p.fallback_methods, IsRegistered))
         IN  AppendMissing(with_fallback, extractors)

NoCandidate == [candidate_id |-> "", source_id |-> <<"">>]

EngineInit ==
    /\ stats = [d \in Domains |-> [m \in Methods |-> NoRow]]
    /\ prefs = [d \in Domains |-> <<>>]
    /\ articles = [c \in CandidateIds |-> <<>>]
    /\ now = 0
    /\ pc = "idle"
    /\ cand = NoCandidate
    /\ order = <<>>
    /\ idx = 1
    /\ runLog = <<>>
    /\ article = <<>>
    /\ returned = <<>>
    /\ runs = 0

\* ExtractionEngine.run, lines 32-37: choose the extractor order
StartRun(c) ==
    /\ pc \in {"idle", "done", "raised"}
    /\ runs < MaxRuns
    /\ runs' = runs + 1
    /\ LET domain == _extract_domain(c.source_id)
       IN  order' = IF HasDomain(domain)
                    THEN _order_extractors(Extractors, prefs[domain])
                    ELSE Extractors
    /\ cand' = c
    /\ idx' = 1
    /\ runLog' = <<>>
    /\ article' = <<>>
    /\ returned' = <<>>
    /\ pc' = "loop"
    /\ UNCHANGED <<stats, prefs, articles, now, sel, dd, pipe, heur>>

\* a loop that never leaves at ACCEPT (faulty variant of NextStep)
NextStepNoStop(accepted, i, n) ==
    [pc |-> IF i = n THEN "update" ELSE "loop", idx |-> i + 1]

\* where run() goes after the attempt at position i of n: on ACCEPT to the
\* article and the return (lines 88-115), otherwise "continue" (lines 85-86)
\* to the next extractor or, after the last one, to lines 117-119
NextStep(accepted, i, n) ==
    IF accepted THEN [pc |-> "update", idx |-> i]
    ELSE [pc |-> IF i = n THEN "update" ELSE "loop", idx |-> i + 1]

\* one iteration of the loop, lines 38-115 up to update_domain_prefs:
\* extract, evaluate, insert_attempt, record_method_attempt, and on ACCEPT
\* build and upsert the article
Attempt ==
    /\ pc = "loop"
    /\ idx <= Len(order)
    /\ \E result \in ExtractResults(order[idx]), duration_ms \in Durations :
         LET m == order[idx]
             domain == _extract_domain(cand.source_id)
             ev == evaluate_text(result.text, min_chars, min_words)
             accepted == ev.decision = "ACCEPT"
             new_article == [article_id |-> cand.candidate_id,
                             source_id |-> cand.source_id,
                             extraction_method |-> m,
                             score |-> ev.score]
         IN  /\ runLog' = Append(runLog, [candidate_id |-> cand.candidate_id,
                                          method |-> m,
                                          status |-> ev.decision])
             /\ stats' = IF HasDomain(domain)
                         THEN [stats EXCEPT ![domain][m] =
                                   record_method_attempt(@, accepted, duration_ms)]
                         ELSE stats
             /\ IF accepted
                THEN /\ article' = <<new_article>>
                     /\ articles' = [articles EXCEPT ![cand.candidate_id] = <<new_article>>]
                ELSE /\ article' = article
                     /\ articles' = articles
             /\ idx' = NextStep(accepted, idx, Len(order)).idx
             /\ pc' = NextStep(accepted, idx, Len(order)).pc
    /\ UNCHANGED <<prefs, now, cand, order, returned, runs, sel, dd, pipe, heur>>

\* extractor.extract(html) raises: line 40 is not inside a try, so the
\* exception leaves run() before anything of this attempt is recorded
ExtractRaises ==
    /\ pc = "loop"
    /\ idx <= Len(order)
    /\ MayRaise(order[idx])
    /\ pc' = "raised"
    /\ UNCHANGED <<stats, prefs, articles, now, cand, order, idx, runLog, article,
                   returned, runs, sel, dd, pipe, heur>>

\* lines 113-119: update_domain_prefs(domain) and return
FinishRun ==
    /\ pc = "update"
    /\ LET domain == _extract_domain(cand.source_id)
       IN  IF HasDomain(domain)
           THEN \E p \in update_domain_prefs(domain, stats[domain], prefs[domain], now) :
                    prefs' = [prefs EXCEPT ![domain] = p]
           ELSE prefs' = prefs
    /\ returned' = article
    /\ pc' = "done"
    /\ UNCHANGED <<stats, articles, now, cand, order, idx, runLog, article, runs, sel, dd,
                   pipe, heur>>

\* wall-clock time passes (in steps of TickHours)
TickHours == cooldown_hours \div 2

Tick ==
    /\ pc \in {"idle", "done", "raised"}
    /\ now + TickHours <= MaxTime
    /\ now' = now + TickHours
    /\ UNCHANGED <<stats, prefs, articles, pc, cand, order, idx, runLog, article,
                   returned, runs, sel, dd, pipe, heur>>

EngineNext ==
    \/ \E c \in Candidates : StartRun(c)
    \/ Attempt
    \/ ExtractRaises
    \/ FinishRun
    \/ Tick

-----------------------------------------------------------------------------
(* scripts/render_digest_llm_compare.py: URLs *)

\* A URL is kept as what urlsplit makes of it: scheme, netloc, the path as
\* its segments plus the number of trailing slashes, the query as the list
\* of (key, value) pairs parse_qsl reads, and the fragment.
EmptyUrl == [scheme |-> "", netloc |-> "", path |-> <<>>, slashes |-> 0,
             query |-> <<>>, fragment |-> ""]

\* str.lower() on the tokens the model uses
Lower(token) ==
    CASE token = "A.com" -> "a.com"
      [] token = "B.com" -> "b.com"
      [] token = "UTM_Source" -> "utm_source"
      [] token = "Ref" -> "ref"
      [] OTHER -> token

\* k.lower().startswith("utm_")
StartsWithUtm(key) == Lower(key) \in {"utm_source", "utm_medium", "utm_campaign"}

IsTrackingKey(key) ==
    \/ StartsWithUtm(key)
    \/ Lower(key) \in {"ref", "fbclid", "gclid", "mc_cid", "mc_eid"}

\* _canonical_url: drop tracking parameters and the fragment, strip the
\* trailing slashes of the path, lower-case the host
_canonical_url(url) ==
    IF url = EmptyUrl THEN EmptyUrl
    ELSE LET Kept(pair) == ~IsTrackingKey(pair[1])
         IN  [scheme |-> Lower(url.scheme),
              netloc |-> Lower(url.netloc),
              path |-> url.path,
              slashes |-> 0,
              query |-> SelectSeq(url.query, Kept),
              fragment |-> ""]

-----------------------------------------------------------------------------
(* scripts/render_digest_llm_compare.py: titles *)

\* A title is the sequence of its characters.
UpperCase == {"A", "B", "C", "D", "E", "F", "G", "H", "X", "Y", "Z"}

LowerChar(c) ==
    CASE c = "A" -> "a" [] c = "B" -> "b" [] c = "C" -> "c" [] c = "D" -> "d"
      [] c = "E" -> "e" [] c = "F" -> "f" [] c = "G" -> "g" [] c = "H" -> "h"
      [] c = "X" -> "x" [] c = "Y" -> "y" [] c = "Z" -> "z"
      [] OTHER -> c

LowerAlnum == {"a", "b", "c", "d", "e", "f", "g", "h", "s", "x", "y", "z",
               "0", "1", "2", "9"}

\* the class [^a-z0-9\\s] of the first pattern (a raw string, so it names
\* the backslash and the letter s, not white space): every character that is
\* not a lower-case letter, a digit or a backslash
IsReplaced(c) == c \notin LowerAlnum /\ c # "\\"

\* re.sub(r"[^a-z0-9\\s]+", " ", s): each run of replaced characters becomes one space
RECURSIVE CollapseRuns(_, _)
CollapseRuns(s, inRun) ==
    IF s = <<>> THEN <<>>
    ELSE IF IsReplaced(Head(s))
         THEN (IF inRun THEN <<>> ELSE <<" ">>) \o CollapseRuns(Tail(s), TRUE)
         ELSE <<Head(s)>> \o CollapseRuns(Tail(s), FALSE)

RECURSIVE DropLeading(_, _)
DropLeading(s, c) ==
    IF s # <<>> /\ Head(s) = c THEN DropLeading(Tail(s), c) ELSE s

\* re.sub(r"\\s+", " ", s): a backslash followed by one or more letters s
\* becomes one space (the pattern, a raw string, does not name white space)
RECURSIVE ReplaceBackslashS(_)
ReplaceBackslashS(s) ==
    IF s = <<>> THEN <<>>
    ELSE IF Head(s) = "\\" /\ Len(s) >= 2 /\ s[2] = "s"
         THEN <<" ">> \o ReplaceBackslashS(DropLeading(Tail(s), "s"))
         ELSE <<Head(s)>> \o ReplaceBackslashS(Tail(s))

RECURSIVE DropTrailing(_, _)
DropTrailing(s, c) ==
    IF s # <<>> /\ s[Len(s)] = c THEN DropTrailing(SubSeq(s, 1, Len(s) - 1), c) ELSE s

\* str.strip() (only spaces are left as white space at this point)
Strip(s) == DropTrailing(DropLeading(s, " "), " ")

_normalize_title(title) ==
    LET lowered == [i \in 1..Len(title) |-> LowerChar(title[i])]
    IN  Strip(ReplaceBackslashS(CollapseRuns(lowered, FALSE)))

\* SequenceMatcher.find_longest_match without junk: the longest common
\* block, the one starting earliest in a, then earliest in b; k = 0 if none
LongestMatch(a, b) ==
    LET blocks == {t \in (1..Len(a)) \X (1..Len(b)) \X (1..Min(Len(a), Len(b))) :
                      /\ t[1] + t[3] - 1 <= Len(a)
                      /\ t[2] + t[3] - 1 <= Len(b)
                      /\ \A d \in 0..(t[3] - 1) : a[t[1] + d] = b[t[2] + d]}
        Better(t, u) == \/ t[3] > u[3]
                        \/ t[3] = u[3] /\ t[1] < u[1]
                        \/ t[3] = u[3] /\ t[1] = u[1] /\ t[2] <= u[2]
    IN  IF blocks = {} THEN [i |-> 1, j |-> 1, k |-> 0]
        ELSE LET best == CHOOSE t \in blocks : \A u \in blocks : Better(t, u)
             IN  [i |-> best[1], j |-> best[2], k |-> best[3]]

\* total size of SequenceMatcher.get_matching_blocks
RECURSIVE MatchCount(_, _)
MatchCount(a, b) ==
    IF a = <<>> \/ b = <<>> THEN 0
    ELSE LET m == LongestMatch(a, b)
         IN  IF m.k = 0 THEN 0
             ELSE m.k + MatchCount(SubSeq(a, 1, m.i - 1), SubSeq(b, 1, m.j - 1))
                      + MatchCount(SubSeq(a, m.i + m.k, Len(a)),
                                   SubSeq(b, m.j + m.k, Len(b)))

similarity_num == 92
similarity_den == 100

\* SequenceMatcher(None, a, b).ratio() >= 0.92, the ratio being 2*M/T
RatioAtLeast(a, b) ==
    2 * MatchCount(a, b) * similarity_den >= similarity_num * (Len(a) + Len(b))

TitlesSimilarByText(ta, tb) ==
    LET a_title == _normalize_title(ta)
        b_title == _normalize_title(tb)
    IN  IF a_title = <<>> \/ b_title = <<>> THEN FALSE
        ELSE RatioAtLeast(a_title, b_title)

-----------------------------------------------------------------------------
(* scripts/render_digest_llm_compare.py: digest items and _dedupe_items *)

\* A digest item: id, url, title, the length of its excerpt, the number of
\* its non-blank bullets and whether its "why" is a non-blank string.

excerpt_min_len == 400
title_words_min == 6
title_words_max == 18

\* path segments that make "/news/", "/press", "/release" or "/insights/"
\* occur in the URL
ArticlePathTokens == {"news", "press", "release", "insights"}

\* re.split(r"\\s+", title.strip()): the pattern (a raw string) splits at a
\* backslash followed by letters s, not at white space
RECURSIVE CountBackslashS(_)
CountBackslashS(s) ==
    IF s = <<>> THEN 0
    ELSE IF Head(s) = "\\" /\ Len(s) >= 2 /\ s[2] = "s"
         THEN 1 + CountBackslashS(DropLeading(Tail(s), "s"))
         ELSE CountBackslashS(Tail(s))

\* number of non-empty pieces: exact for titles that neither start nor end
\* with a separator nor have two in a row (as all titles of the model)
TitleWords(title) == IF title = <<>> THEN 0 ELSE 1 + CountBackslashS(title)

\* the date pattern of _article_score needs a literal backslash in the URL
\* (r"/20\\d{2}/..."), which no URL of the model has
HasDatePattern(url) == FALSE

_article_score(url, title, excerpt_len) ==
    (IF HasDatePattern(url) THEN 1 ELSE 0)
    + (IF title_words_min <= TitleWords(title) /\ TitleWords(title) <= title_words_max
       THEN 1 ELSE 0)
    + (IF excerpt_len >= excerpt_min_len THEN 1 ELSE 0)
    + (IF \E i \in 1..Len(url.path) : Lower(url.path[i]) \in ArticlePathTokens
       THEN 1 ELSE 0)

_item_quality_score(item) ==
    _article_score(item.url, item.title, item.excerpt_len)
    + item.bullets
    + (IF item.why THEN 1 ELSE 0)

_select_best(a, b) ==
    IF _item_quality_score(b) > _item_quality_score(a) THEN b ELSE a

\* the titles of the model
DedupTitles ==
    {<<"A", "b", "c", "d", "e", "f", "!">>,
     <<"a", "b", "c", "d", "e", "f", "g">>,
     <<"a", "b", "c", "d", "e", "f", "g", "h">>}

\* _titles_similar on the titles of the model, computed once
TitlesSimilarTable ==
    [ta \in DedupTitles |-> [tb \in DedupTitles |-> TitlesSimilarByText(ta, tb)]]

_titles_similar(a, b) ==
    IF a.title \in DedupTitles /\ b.title \in DedupTitles
    THEN TitlesSimilarTable[a.title][b.title]
    ELSE TitlesSimilarByText(a.title, b.title)

\* dict assignment by_url[key] = item
DictSet(d, key, item) ==
    [k \in (DOMAIN d) \cup {key} |-> IF k = key THEN item ELSE d[k]]

\* index of the first item of deduped whose title is similar, 0 if none
FirstSimilar(deduped, item) ==
    IF \E j \in 1..Len(deduped) : _titles_similar(deduped[j], item)
    THEN CHOOSE j \in 1..Len(deduped) :
            /\ _titles_similar(deduped[j], item)
            /\ \A i \in 1..(j - 1) : ~_titles_similar(deduped[i], item)
    ELSE 0

\* the first loop of _dedupe_items from position i on
RECURSIVE DedupeScan(_, _, _, _)
DedupeScan(items, i, by_url, deduped) ==
    IF i > Len(items) THEN [by_url |-> by_url, deduped |-> deduped]
    ELSE LET item == items[i]
             norm_url == _canonical_url(item.url)
             j == FirstSimilar(deduped, item)
         IN  IF norm_url # EmptyUrl /\ norm_url \in DOMAIN by_url
             THEN DedupeScan(items, i + 1,
                             DictSet(by_url, norm_url, _select_best(by_url[norm_url], item)),
                             deduped)
             ELSE IF j # 0
             THEN DedupeScan(items, i + 1, by_url,
                             [deduped EXCEPT ![j] = _select_best(deduped[j], item)])
             ELSE DedupeScan(items, i + 1,
                             IF norm_url # EmptyUrl THEN DictSet(by_url, norm_url, item)
                             ELSE by_url,
                             Append(deduped, item))

\* the second loop: take the URL winner of each kept item, once per id
RECURSIVE DedupeMerge(_, _, _, _, _)
DedupeMerge(deduped, i, by_url, seen, merged) ==
    IF i > Len(deduped) THEN merged
    ELSE LET norm_url == _canonical_url(deduped[i].url)
             item == IF norm_url # EmptyUrl /\ norm_url \in DOMAIN by_url
                     THEN by_url[norm_url] ELSE deduped[i]
         IN  IF item.id \in seen
             THEN DedupeMerge(deduped, i + 1, by_url, seen, merged)
             ELSE DedupeMerge(deduped, i + 1, by_url, seen \cup {item.id},
                              Append(merged, item))

_dedupe_items(items) ==
    LET scan == DedupeScan(items, 1, <<>>, <<>>)
    IN  DedupeMerge(scan.deduped, 1, scan.by_url, {}, <<>>)

\* the inputs: lists of at most MaxItems items, with distinct ids (the
\* caller drops repeated ids), every item an article by _is_article_item
DedupUrls ==
    {[scheme |-> "https", netloc |-> "a.com", path |-> <<"news", "p1">>, slashes |-> 0,
      query |-> <<>>, fragment |-> ""],
     [scheme |-> "https", netloc |-> "A.com", path |-> <<"news", "p1">>, slashes |-> 1,
      query |-> << <<"utm_source", "x">> >>, fragment |-> "f"],
     [scheme |-> "https", netloc |-> "a.com", path |-> <<"news", "p2">>, slashes |-> 0,
      query |-> <<>>, fragment |-> ""],
     [scheme |-> "https", netloc |-> "b.com", path |-> <<"news", "p3">>, slashes |-> 0,
      query |-> <<>>, fragment |-> ""]}

DedupShapes ==
    [url : DedupUrls, title : DedupTitles, excerpt_len : {0}, bullets : {0},
     why : BOOLEAN]

WithIds(shapes) ==
    [i \in 1..Len(shapes) |->
        [id |-> i, url |-> shapes[i].url, title |-> shapes[i].title,
         excerpt_len |-> shapes[i].excerpt_len, bullets |-> shapes[i].bullets,
         why |-> shapes[i].why]]

DedupInit ==
    /\ EngineInit
    /\ sel = [pc |-> "off"]
    /\ pipe = [pc |-> "off"]
    /\ heur = [pc |-> "off"]
    /\ \E n \in 0..MaxItems : \E shapes \in [1..n -> DedupShapes] :
         dd = [pc |-> "call", items |-> WithIds(shapes), out |-> <<>>]

\* the call _dedupe_items(items)
DedupeCall ==
    /\ dd.pc = "call"
    /\ dd' = [dd EXCEPT !.pc = "returned", !.out = _dedupe_items(dd.items)]
    /\ UNCHANGED <<stats, prefs, articles, now, pc, cand, order, idx, runLog, article,
                   returned, runs, sel, pipe, heur>>

DedupNext == DedupeCall

DedupSpec == DedupInit /\ [][DedupNext]_vars

-----------------------------------------------------------------------------
(* scripts/render_digest_llm_compare.py: post-processing of the items *)

\* DIGEST_MAX_PER_DOMAIN: the cap arrives through the environment; the model
\* calls _postprocess_items with the caps 1..MaxCap
MaxCap == 2

\* the longest list of items _postprocess_items is called with
MaxCapItems == 3

\* _is_article_item: a URL, and an article score above 0 (no URL and no
\* title of the model is on a blocklist)
_is_article_item(item) ==
    /\ item.url # EmptyUrl
    /\ _article_score(item.url, item.title, item.excerpt_len) # 0

\* urlsplit(url).netloc.replace("www.", "") on the hosts of the model
_domain(url) ==
    CASE url.netloc = "www.a.com" -> "a.com"
      [] OTHER -> url.netloc

\* _category_rank: 0 for a primary source, 1 for a secondary one; no title
\* and no URL of the model holds "lloyd" or a keyword of the ranks 2..6
_category_rank(item) ==
    CASE item.source_id = "primary:x" -> 0
      [] item.source_id = "secondary:y" -> 1
      [] OTHER -> 7

\* str comparison of the domains of the model
DomainLt(d1, d2) ==
    LET rank == [d \in {"", "A.com", "a.com", "b.com"} |->
                    CASE d = "" -> 0 [] d = "A.com" -> 1 [] d = "a.com" -> 2
                      [] OTHER -> 3]
    IN  rank[d1] < rank[d2]

\* a sort by category alone (faulty variant of _order_items: the domain
\* is left out of the key)
_order_items_by_category(items) ==
    LET n == Len(items)
        SortsBefore(i, j) ==
            \/ _category_rank(items[i]) < _category_rank(items[j])
            \/ _category_rank(items[i]) = _category_rank(items[j]) /\ i < j
        Position(i) == 1 + Cardinality({j \in 1..n : j # i /\ SortsBefore(j, i)})
    IN  [k \in 1..n |-> items[CHOOSE i \in 1..n : Position(i) = k]]

\* sorted(items, key=(category, domain)): ascending and stable
_order_items(items) ==
    LET n == Len(items)
        KeyLt(a, b) ==
            \/ _category_rank(a) < _category_rank(b)
            \/ /\ _category_rank(a) = _category_rank(b)
               /\ DomainLt(_domain(a.url), _domain(b.url))
        SortsBefore(i, j) ==
            \/ KeyLt(items[i], items[j])
            \/ ~KeyLt(items[j], items[i]) /\ i < j
        Position(i) == 1 + Cardinality({j \in 1..n : j # i /\ SortsBefore(j, i)})
    IN  [k \in 1..n |-> items[CHOOSE i \in 1..n : Position(i) = k]]

\* _cap_per_domain: item i is kept when it has a domain and fewer than
\* max_per_domain items of its domain come before it (the items before it
\* that were counted are the first max_per_domain of the domain)
_cap_per_domain(items, max_per_domain) ==
    LET Before(i) ==
            Cardinality({j \in 1..(i - 1) : _domain(items[j].url) = _domain(items[i].url)})
        Kept(i) == _domain(items[i].url) # "" /\ Before(i) < max_per_domain
        KeptBefore(i) == Cardinality({j \in 1..i : Kept(j)})
        n == Cardinality({i \in 1..Len(items) : Kept(i)})
    IN  [k \in 1..n |-> items[CHOOSE i \in 1..Len(items) : Kept(i) /\ KeptBefore(i) = k]]

\* _postprocess_items with the cap read from the environment
_postprocess_items(items, max_per_domain) ==
    LET filtered == SelectSeq(items, _is_article_item)
        deduped == _dedupe_items(filtered)
        ordered == _order_items(deduped)
    IN  _cap_per_domain(ordered, max_per_domain)

\* the inputs: items on three URLs of a.com (one written with www.), one
\* of b.com and one page that is no article, under titles that are pairwise
\* not similar
CapUrls ==
    {[scheme |-> "https", netloc |-> "a.com", path |-> <<"news", "p1">>, slashes |-> 0,
      query |-> <<>>, fragment |-> ""],
     [scheme |-> "https", netloc |-> "a.com", path |-> <<"news", "p2">>, slashes |-> 0,
      query |-> <<>>, fragment |-> ""],
     [scheme |-> "https", netloc |-> "www.a.com", path |-> <<"news", "p3">>, slashes |-> 0,
      query |-> <<>>, fragment |-> ""],
     [scheme |-> "https", netloc |-> "b.com", path |-> <<"news", "p3">>, slashes |-> 0,
      query |-> <<>>, fragment |-> ""],
     [scheme |-> "https", netloc |-> "a.com", path |-> <<"p4">>, slashes |-> 0,
      query |-> <<>>, fragment |-> ""]}

CapTitles ==
    {<<"A", "b", "c", "d", "e", "f", "!">>,
     <<"a", "b", "c", "d", "e", "f", "g", "h">>,
     <<"x", "y", "z">>}

CapShapes ==
    [url : CapUrls, title : CapTitles, excerpt_len : {0}, bullets : {0},
     why : BOOLEAN, source_id : {"", "primary:x"}]

CapItems(shapes) ==
    [i \in 1..Len(shapes) |->
        [id |-> i, url |-> shapes[i].url, title |-> shapes[i].title,
         excerpt_len |-> shapes[i].excerpt_len, bullets |-> shapes[i].bullets,
         why |-> shapes[i].why, source_id |-> shapes[i].source_id]]

CapInit ==
    /\ EngineInit
    /\ sel = [pc |-> "off"]
    /\ pipe = [pc |-> "off"]
    /\ heur = [pc |-> "off"]
    /\ \E n \in 0..MaxCapItems : \E shapes \in [1..n -> CapShapes] :
       \E k \in 1..MaxCap :
         dd = [pc |-> "postprocess", items |-> CapItems(shapes), cap |-> k,
               out |-> <<>>]

\* the call _postprocess_items(items)
PostprocessCall ==
    /\ dd.pc = "postprocess"
    /\ dd' = [dd EXCEPT !.pc = "postprocessed",
                        !.out = _postprocess_items(dd.items, dd.cap)]
    /\ UNCHANGED <<stats, prefs, articles, now, pc, cand, order, idx, runLog, article,
                   returned, runs, sel, pipe, heur>>

CapNext == PostprocessCall

CapSpec == CapInit /\ [][CapNext]_vars

\* the inputs of the ordering: items of the three kinds of source on URLs
\* of a.com (one written with www.), A.com and b.com
RankUrls ==
    {[scheme |-> "https", netloc |-> "a.com", path |-> <<"news", "p1">>, slashes |-> 0,
      query |-> <<>>, fragment |-> ""],
     [scheme |-> "https", netloc |-> "www.a.com", path |-> <<"news", "p3">>, slashes |-> 0,
      query |-> <<>>, fragment |-> ""],
     [scheme |-> "https", netloc |-> "A.com", path |-> <<"news", "p2">>, slashes |-> 0,
      query |-> <<>>, fragment |-> ""],
     [scheme |-> "https", netloc |-> "b.com", path |-> <<"news", "p3">>, slashes |-> 0,
      query |-> <<>>, fragment |-> ""]}

RankTitles == CapTitles

RankShapes ==
    [url : RankUrls, title : RankTitles, excerpt_len : {0}, bullets : {0},
     why : {FALSE}, source_id : {"", "primary:x", "secondary:y"}]

RankInit ==
    /\ EngineInit
    /\ sel = [pc |-> "off"]
    /\ pipe = [pc |-> "off"]
    /\ heur = [pc |-> "off"]
    /\ \E n \in 0..MaxCapItems : \E shapes \in [1..n -> RankShapes] :
       \E k \in 1..MaxCap :
         dd = [pc |-> "postprocess", items |-> CapItems(shapes), cap |-> k,
               out |-> <<>>]

RankNext == PostprocessCall

RankSpec == RankInit /\ [][RankNext]_vars

-----------------------------------------------------------------------------
(* pipeline.py: from the extracted article to the digest items *)

\* LLOYDS_DIGEST_KEYWORDS_MIN_SCORE, default "2.5"; keyword weights and
\* scores are kept in tenths
keywords_min_score_tenths == 25

\* _summarize_text(text, max_sentences=3)
max_sentences == 3

\* A body is the sequence of its pieces: words, the separators ".", "!",
\* "?" and white space " ".
IsSentenceEnd(c) == c \in {".", "!", "?"}

\* " ".join(text.split()): no white space at the ends, one blank between words
RECURSIVE SplitJoin(_, _)
SplitJoin(text, pending) ==
    IF text = <<>> THEN <<>>
    ELSE IF Head(text) = " " THEN SplitJoin(Tail(text), TRUE)
    ELSE (IF pending THEN <<" ", Head(text)>> ELSE <<Head(text)>>)
         \o SplitJoin(Tail(text), FALSE)

WithoutOuterBlanks(text) ==
    IF text = <<>> THEN <<>>
    ELSE IF Head(text) = " " THEN SplitJoin(text, FALSE)
    ELSE <<Head(text)>> \o SplitJoin(Tail(text), FALSE)

\* _split_sentences: cut after every separator, keep the sentences that
\* are not blank, stripped
RECURSIVE SplitSentences(_, _)
SplitSentences(text, current) ==
    IF text = <<>>
    THEN IF Strip(current) # <<>> THEN <<Strip(current)>> ELSE <<>>
    ELSE LET cur == Append(current, Head(text))
         IN  IF IsSentenceEnd(Head(text))
             THEN (IF Strip(cur) # <<>> THEN <<Strip(cur)>> ELSE <<>>)
                  \o SplitSentences(Tail(text), <<>>)
             ELSE SplitSentences(Tail(text), cur)

_split_sentences(text) == SplitSentences(text, <<>>)

\* _summarize_text: None (<<>>) or the list of the first sentences
_summarize_text(text) ==
    LET cleaned == WithoutOuterBlanks(text)
        bullets == _split_sentences(cleaned)
    IN  IF cleaned = <<>> \/ bullets = <<>> THEN <<>>
        ELSE <<SubSeq(bullets, 1, Min(max_sentences, Len(bullets)))>>

\* ", ".join(topics)
RECURSIVE JoinTopics(_)
JoinTopics(topics) ==
    IF Len(topics) = 1 THEN <<topics[1]>>
    ELSE <<topics[1], ", ">> \o JoinTopics(Tail(topics))

\* the topic of the source metadata: topics is None (<<>>) or a list
TopicOf(topics) ==
    IF topics # <<>> /\ topics[1] # <<>> THEN JoinTopics(topics[1]) ELSE <<"General">>

\* a score that counts only the heaviest term found (faulty variant of
\* SumWeights)
HeaviestWeightOnly(terms) ==
    IF terms = {} THEN 0
    ELSE (CHOOSE t \in terms : \A u \in terms : u.weight <= t.weight).weight

\* KeywordRules.score: the sum of the weights of the terms found
RECURSIVE SumWeights(_)
SumWeights(terms) ==
    IF terms = {} THEN 0
    ELSE LET t == CHOOSE x \in terms : TRUE
         IN  t.weight + SumWeights(terms \ {t})

\* what an LLM stage can do: raise (an exception or a timeout inside
\* call_fn), or return a result whose "parsed" is what json.loads made of
\* the answer: an object, or the empty object of _safe_json, or a JSON
\* value that is no object ("NoObject": a non-empty list or string)
Raises == [kind |-> "raises"]

NoObject == [kind |-> "no object"]

\* a stage whose failure counts as the answer "not relevant" (faulty
\* variant of _run_llm_stage)
FailureCountsAsNotRelevant(outcome) ==
    IF outcome.kind = "raises"
    THEN [result |-> <<[kind |-> "object", relevant |-> <<FALSE>>, confidence |-> <<>>,
                        reason |-> <<>>, label |-> <<>>, bullets |-> <<>>]>>,
          warnings |-> 1]
    ELSE [result |-> <<outcome>>, warnings |-> 0]

\* _run_llm_stage: the exception of call_fn becomes a warning and None
_run_llm_stage(outcome) ==
    IF outcome.kind = "raises" THEN [result |-> <<>>, warnings |-> 1]
    ELSE [result |-> <<outcome>>, warnings |-> 0]

\* the relevance stage (the module ai/relevance.py is not part of the
\* sources; its result has the shape of the other two stages and the
\* fields relevant, confidence, reason)
RelevanceOutcomes ==
    {Raises,
     [kind |-> "object", relevant |-> <<>>, confidence |-> <<>>, reason |-> <<>>],
     [kind |-> "object", relevant |-> <<TRUE>>, confidence |-> << <<8, 10>> >>,
      reason |-> <<"r">>],
     [kind |-> "object", relevant |-> <<TRUE>>, confidence |-> <<>>, reason |-> <<"r">>],
     [kind |-> "object", relevant |-> <<FALSE>>, confidence |-> << <<8, 10>> >>,
      reason |-> <<"r">>]}

ClassifyOutcomes ==
    {Raises, NoObject, [kind |-> "object", label |-> <<>>],
     [kind |-> "object", label |-> <<" ">>], [kind |-> "object", label |-> <<"Claims">>]}

SummariseOutcomes ==
    {Raises, NoObject, [kind |-> "object", bullets |-> <<>>],
     [kind |-> "object", bullets |-> << <<>> >>],
     [kind |-> "object", bullets |-> << <<" ">> >>],
     [kind |-> "object", bullets |-> << <<"b1", " ">> >>]}

\* the bullets of the summarise answer, stripped, the blank ones dropped
StripBullets(bullets) ==
    LET Strips(b) == IF b = " " THEN "" ELSE b
        NotBlank(b) == Strips(b) # ""
    IN  [i \in 1..Len(SelectSeq(bullets, NotBlank)) |->
            Strips(SelectSeq(bullets, NotBlank)[i])]

\* _article_to_items, lines 313-453, with the outcomes of the three LLM
\* stages; the result is the list of items, the rejection recorded, the
\* number of warnings and whether an exception left the function
_article_to_items(candidate, art, keyword_rules, llm_enabled, rel, cls, sum) ==
    LET topic == TopicOf(candidate.topics)
        score_hint == SumWeights(keyword_rules.matched)
        gated == keyword_rules.loaded /\ score_hint < keywords_min_score_tenths
        relevance_result == _run_llm_stage(rel)
        classify_result == _run_llm_stage(cls)
        summarise_result == _run_llm_stage(sum)
        has_rel == llm_enabled /\ relevance_result.result # <<>>
        has_cls == llm_enabled /\ classify_result.result # <<>>
        has_sum == llm_enabled /\ summarise_result.result # <<>>
        rel_parsed == relevance_result.result[1]
        cls_parsed == classify_result.result[1]
        sum_parsed == summarise_result.result[1]
        not_relevant == has_rel /\ rel_parsed.relevant = <<FALSE>>
        cls_raises == has_cls /\ cls_parsed.kind = "no object"
        sum_raises == has_sum /\ sum_parsed.kind = "no object"
        score == IF has_rel /\ rel_parsed.confidence # <<>> THEN rel_parsed.confidence
                 ELSE art.score
        why_it_matters == IF has_rel THEN rel_parsed.reason ELSE <<>>
        label_topic == IF has_cls /\ cls_parsed.kind = "object" /\ cls_parsed.label # <<>>
                          /\ cls_parsed.label # <<" ">>
                       THEN cls_parsed.label ELSE topic
        summary == IF has_sum /\ sum_parsed.kind = "object" /\ sum_parsed.bullets # <<>>
                      /\ sum_parsed.bullets[1] # <<>>
                   THEN <<StripBullets(sum_parsed.bullets[1])>>
                   ELSE _summarize_text(art.body_text)
        item == [title |-> art.title,
                 url |-> art.url,
                 summary |-> summary,
                 score |-> score,
                 source_type |-> IF candidate.source_type = <<>> THEN "unknown"
                                 ELSE candidate.source_type[1],
                 topic |-> label_topic,
                 why_it_matters |-> why_it_matters]
    IN  IF gated
        THEN [pc |-> "returned", items |-> <<>>, rejection |-> <<"keyword">>,
              warnings |-> 0]
        ELSE IF not_relevant
        THEN [pc |-> "returned", items |-> <<>>, rejection |-> <<"llm_relevance">>,
              warnings |-> 0]
        ELSE IF cls_raises
        THEN [pc |-> "raised", items |-> <<>>, rejection |-> <<>>,
              warnings |-> relevance_result.warnings]
        ELSE IF sum_raises
        THEN [pc |-> "raised", items |-> <<>>, rejection |-> <<>>,
              warnings |-> relevance_result.warnings + classify_result.warnings]
        ELSE [pc |-> "returned", items |-> <<item>>, rejection |-> <<>>,
              warnings |-> IF llm_enabled
                           THEN relevance_result.warnings + classify_result.warnings
                                + summarise_result.warnings
                           ELSE 0]

\* the inputs: one candidate with its source metadata, the text an
\* extractor returns for it, the keyword rules with the terms found in the
\* text, and the LLM mode
ScenarioText == [chars |-> 600, words |-> 90]

PipeTexts == {ShortText, GoodText, ScenarioText}

PipeBodies ==
    {<<"One", ".", " ", "Two", "!", " ", "Three", "?", " ", "Four", ".">>,
     <<" ", "One", ".", " ", " ", "Two", " ">>,
     <<"One", ".", ".", " ", "Two", ".">>}

PipeTopics == {<<>>, << <<>> >>, << <<"Market">> >>, << <<"Market", "Claims">> >>}

KeywordTerms ==
    {[term |-> "lloyd's", weight |-> 30], [term |-> "syndicate", weight |-> 20],
     [term |-> "reinsurance", weight |-> 15]}

PipeKeywordRules ==
    {[loaded |-> FALSE, matched |-> {}]}
    \cup {[loaded |-> TRUE, matched |-> m] : m \in SUBSET KeywordTerms}

PipeInit ==
    /\ EngineInit
    /\ sel = [pc |-> "off"]
    /\ dd = [pc |-> "off"]
    /\ heur = [pc |-> "off"]
    /\ \E topics \in PipeTopics, source_type \in {<<>>, <<"rss">>},
          text \in PipeTexts, body \in PipeBodies, rules \in PipeKeywordRules,
          llm \in BOOLEAN :
         pipe = [pc |-> "extract",
                 candidate |-> [candidate_id |-> "c1", url |-> "u", title |-> "T",
                                topics |-> topics, source_type |-> source_type],
                 text |-> text,
                 body |-> body,
                 keyword_rules |-> rules,
                 llm_enabled |-> llm,
                 article |-> <<>>,
                 stages |-> <<>>,
                 items |-> <<>>,
                 rejection |-> <<>>,
                 warnings |-> 0]

\* extraction_engine.run for the candidate (pipeline.py line 158): the
\* article of engine.py lines 88-97 when the text is accepted, else None
\* and the pipeline goes on to the next candidate (lines 159-161)
RunExtraction ==
    /\ pipe.pc = "extract"
    /\ LET ev == evaluate_text(pipe.text, min_chars, min_words)
       IN  IF ev.decision = "ACCEPT"
           THEN pipe' = [pipe EXCEPT
                           !.pc = "gate",
                           !.article = <<[article_id |-> pipe.candidate.candidate_id,
                                          url |-> pipe.candidate.url,
                                          title |-> pipe.candidate.title,
                                          body_text |-> pipe.body,
                                          score |-> <<ev.score>>]>>]
           ELSE pipe' = [pipe EXCEPT !.pc = "skipped"]
    /\ UNCHANGED <<stats, prefs, articles, now, pc, cand, order, idx, runLog, article,
                   returned, runs, sel, dd, heur>>

\* _article_to_items(candidate, article, ...) (pipeline.py lines 163-175)
ArticleToItems ==
    /\ pipe.pc = "gate"
    /\ \E rel \in RelevanceOutcomes, cls \in ClassifyOutcomes, sum \in SummariseOutcomes :
         LET r == _article_to_items(pipe.candidate, pipe.article[1], pipe.keyword_rules,
                                    pipe.llm_enabled, rel, cls, sum)
             reached == pipe.llm_enabled /\ r.rejection # <<"keyword">>
         IN  pipe' = [pipe EXCEPT
                        !.pc = r.pc,
                        !.stages = IF ~reached THEN <<>>
                                   ELSE IF r.rejection = <<"llm_relevance">>
                                   THEN <<rel>>
                                   ELSE IF r.pc = "raised" /\ cls.kind = "no object"
                                   THEN <<rel, cls>>
                                   ELSE <<rel, cls, sum>>,
                        !.items = r.items,
                        !.rejection = r.rejection,
                        !.warnings = r.warnings]
    /\ UNCHANGED <<stats, prefs, articles, now, pc, cand, order, idx, runLog, article,
                   returned, runs, sel, dd, heur>>

PipeNext == RunExtraction \/ ArticleToItems

PipeSpec == PipeInit /\ [][PipeNext]_vars

-----------------------------------------------------------------------------
(* scoring/heuristics.py: evaluate_text on texts given character by character *)

\* the longest text evaluate_text is called with
MaxTextLen == 4

\* the largest threshold of HeuristicThresholds(min_chars, min_words)
MaxThreshold == 3

\* len(text.split()): the number of maximal runs of characters that are not
\* white space
WordCount(text) ==
    Cardinality({i \in 1..Len(text) : text[i] # " " /\ (i = 1 \/ text[i - 1] = " ")})

\* what evaluate_text reads of a text: len(text.strip()) and the words
Measure(text) == [chars |-> Len(Strip(text)), words |-> WordCount(Strip(text))]

HeurTexts ==
    UNION {[1..n -> {"a", " "}] : n \in 0..MaxTextLen}

HeurInit ==
    /\ EngineInit
    /\ sel = [pc |-> "off"]
    /\ dd = [pc |-> "off"]
    /\ pipe = [pc |-> "off"]
    /\ \E text \in HeurTexts, c \in 1..MaxThreshold, w \in 1..MaxThreshold :
         heur = [pc |-> "call", text |-> text, min_chars |-> c, min_words |-> w,
                 result |-> <<>>]

\* the call evaluate_text(text, HeuristicThresholds(min_chars, min_words))
EvaluateCall ==
    /\ heur.pc = "call"
    /\ heur' = [heur EXCEPT !.pc = "returned",
                            !.result = <<evaluate_text(Measure(heur.text),
                                                       heur.min_chars, heur.min_words)>>]
    /\ UNCHANGED <<stats, prefs, articles, now, pc, cand, order, idx, runLog, article,
                   returned, runs, sel, dd, pipe>>

HeurNext == EvaluateCall

HeurSpec == HeurInit /\ [][HeurNext]_vars

-----------------------------------------------------------------------------
(* URLs as text: urlsplit, parse_qsl, urlencode and urlunsplit around the
   two canonicalizers (scripts/render_digest_llm_compare.py _canonical_url,
   discovery/url_utils.py canonicalise_url) *)

\* A URL text is the sequence of its pieces: a scheme with its colon, the
\* delimiters "/", "?", "#", "&", "=", and names (hosts, path segments,
\* keys, values).
SchemeTokens == {"https:", "HTTPS:"}

\* the scheme of a scheme piece, lower-cased as urlsplit returns it
SchemeName(token) == "https"

\* position of the first piece of text that is in the set stops, or
\* Len(text) + 1
FirstOf(text, stops) ==
    IF \E i \in 1..Len(text) : text[i] \in stops
    THEN CHOOSE i \in 1..Len(text) :
            text[i] \in stops /\ \A j \in 1..(i - 1) : text[j] \notin stops
    ELSE Len(text) + 1

After(text, i) == SubSeq(text, i + 1, Len(text))

Before(text, i) == SubSeq(text, 1, i - 1)

StartsWithTwoSlashes(text) == Len(text) >= 2 /\ text[1] = "/" /\ text[2] = "/"

\* urllib.parse.urlsplit
urlsplit(url) ==
    LET has_scheme == url # <<>> /\ Head(url) \in SchemeTokens
        r1 == IF has_scheme THEN Tail(url) ELSE url
        has_netloc == StartsWithTwoSlashes(r1)
        a == After(r1, 2)
        n == FirstOf(a, {"/", "?", "#"})
        r2 == IF has_netloc THEN After(a, n - 1) ELSE r1
        f == FirstOf(r2, {"#"})
        r3 == Before(r2, f)
        q == FirstOf(r3, {"?"})
    IN  [scheme |-> IF has_scheme THEN SchemeName(Head(url)) ELSE "",
         netloc |-> IF has_netloc THEN Before(a, n) ELSE <<>>,
         path |-> Before(r3, q),
         query |-> After(r3, q),
         fragment |-> After(r2, f)]

\* parse_qsl(query, keep_blank_values=True): the pieces between "&", the
\* empty ones skipped, each cut at its first "="
RECURSIVE parse_qsl(_)
parse_qsl(query) ==
    IF query = <<>> THEN <<>>
    ELSE LET a == FirstOf(query, {"&"})
             piece == Before(query, a)
             e == FirstOf(piece, {"="})
         IN  (IF piece = <<>> THEN <<>>
              ELSE << <<Before(piece, e), After(piece, e)>> >>)
             \o parse_qsl(After(query, a))

\* urlencode(pairs, doseq=True)
RECURSIVE urlencode(_)
urlencode(pairs) ==
    IF pairs = <<>> THEN <<>>
    ELSE Head(pairs)[1] \o <<"=">> \o Head(pairs)[2]
         \o (IF Len(pairs) > 1 THEN <<"&">> \o urlencode(Tail(pairs)) ELSE <<>>)

\* urllib.parse.urlunsplit. The interpreter is not pinned: up to Python
\* 3.12.3 a path that starts with "//" under an empty netloc is written
\* without the "//" of the authority; later versions write it
urlunsplit(parts, keeps_empty_authority) ==
    LET with_netloc ==
            \/ parts.netloc # <<>>
            \/ parts.scheme # "" /\ ~StartsWithTwoSlashes(parts.path)
            \/ keeps_empty_authority /\ StartsWithTwoSlashes(parts.path)
        path == IF with_netloc /\ parts.path # <<>> /\ parts.path[1] # "/"
                THEN <<"/">> \o parts.path ELSE parts.path
    IN  (IF parts.scheme # "" THEN <<parts.scheme \o ":">> ELSE <<>>)
        \o (IF with_netloc THEN <<"/", "/">> \o parts.netloc ELSE <<>>)
        \o path
        \o (IF parts.query # <<>> THEN <<"?">> \o parts.query ELSE <<>>)
        \o (IF parts.fragment # <<>> THEN <<"#">> \o parts.fragment ELSE <<>>)

LowerAll(text) == [i \in 1..Len(text) |-> Lower(text[i])]

\* the key of a pair is a tracking key
PairIsTracking(pair) == pair[1] # <<>> /\ IsTrackingKey(pair[1][1])

PairIsUtm(pair) == pair[1] # <<>> /\ StartsWithUtm(pair[1][1])

\* _canonical_url from text to text
canonical_url_text(url, keeps_empty_authority) ==
    IF url = <<>> THEN <<>>
    ELSE LET parts == urlsplit(url)
             Kept(pair) == ~PairIsTracking(pair)
         IN  urlunsplit([scheme |-> parts.scheme,
                         netloc |-> LowerAll(parts.netloc),
                         path |-> DropTrailing(parts.path, "/"),
                         query |-> urlencode(SelectSeq(parse_qsl(parts.query), Kept)),
                         fragment |-> <<>>],
                        keeps_empty_authority)

\* discovery/url_utils.py canonicalise_url
canonicalise_url(url, keeps_empty_authority) ==
    LET parts == urlsplit(url)
        Kept(pair) == ~PairIsUtm(pair)
    IN  urlunsplit([scheme |-> parts.scheme,
                    netloc |-> parts.netloc,
                    path |-> parts.path,
                    query |-> urlencode(SelectSeq(parse_qsl(parts.query), Kept)),
                    fragment |-> <<>>],
                   keeps_empty_authority)

\* the inputs: URL texts put together from a scheme, an authority, a path,
\* a query and a fragment, each of which may be missing
UrlSchemes == {<<>>, <<"https:">>, <<"HTTPS:">>}

UrlAuthorities == {<<>>, <<"/", "/">>, <<"/", "/", "a.com">>, <<"/", "/", "A.com">>}

UrlPaths == {<<>>, <<"/", "a">>, <<"/", "a", "/">>, <<"/", "/", "A.com">>}

UrlQueries ==
    {<<>>,
     <<"?", "keep", "=", "1">>,
     <<"?", "utm_source", "=", "y", "&", "keep", "=", "1">>,
     <<"?", "keep", "=", "1", "&", "UTM_Source", "=", "y">>,
     <<"?", "keep">>}

UrlFragments == {<<>>, <<"#", "frag">>}

UrlTexts ==
    {s \o a \o p \o q \o f :
        s \in UrlSchemes, a \in UrlAuthorities, p \in UrlPaths, q \in UrlQueries,
        f \in UrlFragments}

CanonInit ==
    /\ EngineInit
    /\ sel = [pc |-> "off"]
    /\ pipe = [pc |-> "off"]
    /\ heur = [pc |-> "off"]
    /\ \E url \in UrlTexts, lib \in BOOLEAN :
         dd = [pc |-> "canonicalize", url |-> url, keeps_empty_authority |-> lib,
               script |-> <<>>, discovery |-> <<>>]

\* the calls _canonical_url(url) and canonicalise_url(url)
CanonicalizeCall ==
    /\ dd.pc = "canonicalize"
    /\ dd' = [dd EXCEPT !.pc = "canonicalized",
                        !.script = canonical_url_text(dd.url, dd.keeps_empty_authority),
                        !.discovery = canonicalise_url(dd.url, dd.keeps_empty_authority)]
    /\ UNCHANGED <<stats, prefs, articles, now, pc, cand, order, idx, runLog, article,
                   returned, runs, sel, pipe, heur>>

CanonNext == CanonicalizeCall

CanonSpec == CanonInit /\ [][CanonNext]_vars

-----------------------------------------------------------------------------
(* select_method_prefs as a pure function: inputs drawn from bounded sets *)

SelDomain == <<"example.com">>

SelMethodNames == <<"a", "b", "c">>

\* (attempts, successes) of a MethodStats: one under-sampled row and rates
\* 0.25, 0.5, 0.75 (4 attempts) and 0.4, 0.6 (5 attempts), so that
\* differences of exactly, less than and more than promote_margin occur
SelCounts == {<<2, 2>>, <<4, 1>>, <<4, 2>>, <<4, 3>>, <<5, 2>>, <<5, 3>>}

SelMedians(name) == IF name = "c" THEN {10} ELSE {10, 20}

SelRows(name) ==
    {[method |-> name, attempts |-> c[1], successes |-> c[2], median_duration_ms |-> d]
        : c \in SelCounts, d \in SelMedians(name)}

SelNameOrders ==
    UNION {RowOrders(S) : S \in SUBSET {SelMethodNames[i] : i \in 1..Len(SelMethodNames)}}

\* the stats lists: any subset of the methods, in any order, one row each
SelStatsLists ==
    UNION {{f \in [1..Len(o) -> UNION {SelRows(o[i]) : i \in 1..Len(o)}]
                : \A i \in 1..Len(o) : f[i].method = o[i]}
           : o \in SelNameOrders}

SelNow == cooldown_hours

\* current prefs: None, or prefs naming any method as primary, never locked,
\* lock expiring exactly now, or lock still active for 23 hours
SelCurrents ==
    {<<>>} \cup
    {<<[domain |-> SelDomain,
        primary_method |-> p,
        fallback_methods |-> <<>>,
        confidence |-> <<2, 5>>,
        last_changed_at |-> ch,
        locked_until |-> lu,
        drift_flag |-> FALSE,
        drift_notes |-> NoTime]>>
        : p \in {"a", "b", "c"}, ch \in {NoTime, SelNow - 1},
          lu \in {NoTime, SelNow, SelNow + 23}}

SelInit ==
    /\ EngineInit
    /\ dd = [pc |-> "off"]
    /\ pipe = [pc |-> "off"]
    /\ heur = [pc |-> "off"]
    /\ \E st \in SelStatsLists, cur \in SelCurrents :
         sel = [pc |-> "call", stats |-> st, current |-> cur, now |-> SelNow,
                result |-> <<>>]

\* the call select_method_prefs(domain, stats, current, now)
SelectCall ==
    /\ sel.pc = "call"
    /\ sel' = [sel EXCEPT !.pc = "returned",
                          !.result = select_method_prefs(SelDomain, sel.stats,
                                                         sel.current, sel.now)]
    /\ UNCHANGED <<stats, prefs, articles, now, pc, cand, order, idx, runLog, article,
                   returned, runs, dd, pipe, heur>>

SelNext == SelectCall

SelSpec == SelInit /\ [][SelNext]_vars

-----------------------------------------------------------------------------
(* Specifications *)

\* sequential extraction runs against the statistics store
Init ==
    /\ EngineInit
    /\ sel = [pc |-> "off"]
    /\ dd = [pc |-> "off"]
    /\ pipe = [pc |-> "off"]
    /\ heur = [pc |-> "off"]

Next == EngineNext

Spec == Init /\ [][Next]_vars

\* the runs together with the calls of select_method_prefs on arbitrary
\* statistics
CooldownInit == Init \/ SelInit

CooldownNext ==
    \/ sel.pc = "off" /\ EngineNext
    \/ SelNext

CooldownSpec == CooldownInit /\ [][CooldownNext]_vars

\* the same runs while the clock keeps going; that runs are started again
\* and again is the hypothesis of the liveness property, not of the scheduler
FairSpec == Init /\ [][Next]_vars /\ WF_vars(Tick)

-----------------------------------------------------------------------------
(* Properties of the extraction engine (Spec) *)

\* the domain of the candidate of the current run
RunDomain == _extract_domain(cand.source_id)

InRun == pc \in {"loop", "update", "done", "raised"}

Accepted(entry) == entry.status = "ACCEPT"

\* a step that records one attempt (insert_attempt) of the current run
AttemptRecorded == Len(runLog') = Len(runLog) + 1

StatsWithinBounds ==
    \A d \in Domains, m \in Methods :
        /\ 0 <= stats[d][m].successes
        /\ stats[d][m].successes <= stats[d][m].attempts

StatsFollowAttempts ==
    \A d \in Domains, m \in Methods :
        LET mine == /\ AttemptRecorded
                    /\ _extract_domain(cand'.source_id) = d
                    /\ runLog'[Len(runLog')].method = m
        IN  /\ stats'[d][m].attempts
                 = stats[d][m].attempts + (IF mine THEN 1 ELSE 0)
            /\ stats'[d][m].successes
                 = stats[d][m].successes
                   + (IF mine /\ Accepted(runLog'[Len(runLog')]) THEN 1 ELSE 0)

\* C3: every row of the method statistics has 0 <= successes <= attempts;
\* each recorded attempt adds exactly 1 to attempts of the row of its
\* (domain, method) and 1 to successes exactly when its decision is ACCEPT,
\* and nothing else changes any counter.
StatsCountAttempts ==
    []StatsWithinBounds /\ [][StatsFollowAttempts]_vars

\* a row holding both failed and accepted attempts
StatsCountAttemptsWitness ==
    \E d \in Domains, m \in Methods :
        /\ stats[d][m].successes >= 1
        /\ stats[d][m].attempts >= stats[d][m].successes + 2

\* the extractors of the run are invoked in the chosen order, one attempt
\* each, and none after an ACCEPT
RunInOrder ==
    InRun =>
        /\ Len(order) = Len(Extractors)
        /\ \A i, j \in 1..Len(order) : order[i] = order[j] => i = j
        /\ Len(runLog) <= Len(order)
        /\ \A i \in 1..Len(runLog) :
              /\ runLog[i].method = order[i]
              /\ runLog[i].candidate_id = cand.candidate_id
              /\ Accepted(runLog[i]) => i = Len(runLog)

\* what a finished run returns
RunResult ==
    pc = "done" =>
        IF runLog # <<>> /\ Accepted(runLog[Len(runLog)])
        THEN /\ returned # <<>>
             /\ returned[1].article_id = cand.candidate_id
             /\ returned[1].extraction_method = runLog[Len(runLog)].method
             /\ articles[cand.candidate_id] = returned
        ELSE /\ returned = <<>>
             /\ Len(runLog) = Len(order)

\* an article is upserted only by an attempt that accepts, under the id of
\* the run's candidate and naming the accepting extractor
UpsertOnlyOnAccept ==
    articles' # articles =>
        /\ AttemptRecorded
        /\ Accepted(runLog'[Len(runLog')])
        /\ \A c \in CandidateIds : c # cand.candidate_id => articles'[c] = articles[c]
        /\ articles'[cand.candidate_id] # <<>>
        /\ articles'[cand.candidate_id][1].article_id = cand.candidate_id
        /\ articles'[cand.candidate_id][1].extraction_method = runLog'[Len(runLog')].method

\* C4: within one run the extractors are invoked in the chosen order, each at
\* most once, none after the first ACCEPT; the article returned and upserted
\* has the candidate's id and names the accepting extractor; a run in which no
\* extractor accepts has tried them all, returns no article and upserts none.
RunStopsAtFirstAccept ==
    [](RunInOrder /\ RunResult) /\ [][UpsertOnlyOnAccept]_vars

\* a finished run whose second or later extractor accepted, with extractors
\* left untried
RunStopsAtFirstAcceptWitness ==
    /\ pc = "done"
    /\ returned # <<>>
    /\ Len(runLog) >= 2
    /\ Len(runLog) < Len(order)

ExtractExceptionIsFailedAttempt ==
    [][pc = "loop" => (AttemptRecorded /\ pc' \in {"loop", "update"})]_vars

-----------------------------------------------------------------------------
(* Properties of select_method_prefs (SelSpec, CooldownSpec) *)

\* locked_until of a prefs row is set and strictly later than time t
LockedAt(p, t) == p.locked_until # NoTime /\ p.locked_until > t

Qualifies(st) == st.attempts >= min_attempts

\* the call of select_method_prefs with a locked current and a qualifying
\* method has returned the current prefs
LockedCallKeepsCurrent ==
    (/\ sel.pc = "returned"
     /\ sel.current # <<>>
     /\ LockedAt(sel.current[1], sel.now)
     /\ \E i \in 1..Len(sel.stats) : Qualifies(sel.stats[i]))
    => sel.result = sel.current

\* a step taken while the stored prefs of a domain are locked keeps their
\* primary method
LockedPrimaryKept ==
    \A d \in Domains :
        (prefs[d] # <<>> /\ LockedAt(prefs[d][1], now))
        => /\ prefs'[d] # <<>>
           /\ prefs'[d][1].primary_method = prefs[d][1].primary_method

\* C1: while locked_until of the current prefs is later than now and some
\* method qualifies, select_method_prefs returns the current prefs unchanged
\* for every list of MethodStats; and in sequential runs the stored primary
\* method of a domain never changes before its stored locked_until.
CooldownLock ==
    []LockedCallKeepsCurrent /\ [][LockedPrimaryKept]_vars

\* success rate of a is at least that of b plus promote_margin
RateAheadByMargin(a, b) ==
    a.successes * b.attempts * promote_margin_den
        >= b.successes * a.attempts * promote_margin_den
           + promote_margin_num * a.attempts * b.attempts

\* a finished run that left the locked primary in place although another
\* qualifying method is ahead of it by the margin
CooldownLockWitness ==
    /\ pc = "done"
    /\ \E d \in Domains :
         /\ prefs[d] # <<>>
         /\ LockedAt(prefs[d][1], now)
         /\ prefs[d][1].last_changed_at < now
         /\ \E m \in Methods :
              /\ m # prefs[d][1].primary_method
              /\ Qualifies(stats[d][m])
              /\ Qualifies(stats[d][prefs[d][1].primary_method])
              /\ RateAheadByMargin(stats[d][m], stats[d][prefs[d][1].primary_method])

\* position in sel.stats of the best-ranked qualifying method: highest
\* success rate, then lowest median duration, then first in the list
BestRanked ==
    LET st == sel.stats
        Higher(i, j) ==
            \/ st[i].successes * st[j].attempts > st[j].successes * st[i].attempts
            \/ /\ st[i].successes * st[j].attempts = st[j].successes * st[i].attempts
               /\ st[i].median_duration_ms < st[j].median_duration_ms
        qualifying == {i \in 1..Len(st) : Qualifies(st[i])}
    IN  CHOOSE i \in qualifying :
            \A j \in qualifying \ {i} : Higher(i, j) \/ (~Higher(j, i) /\ i < j)

\* position in sel.stats of the current primary method
CurrentRow ==
    CHOOSE i \in 1..Len(sel.stats) :
        sel.stats[i].method = sel.current[1].primary_method

\* the call is one of the hysteresis case: current prefs, no active lock, the
\* current primary still qualifies
HysteresisCase ==
    /\ sel.pc = "returned"
    /\ sel.current # <<>>
    /\ ~LockedAt(sel.current[1], sel.now)
    /\ \E i \in 1..Len(sel.stats) :
          /\ sel.stats[i].method = sel.current[1].primary_method
          /\ Qualifies(sel.stats[i])

ShouldPromote ==
    /\ sel.stats[BestRanked].method # sel.current[1].primary_method
    /\ RateAheadByMargin(sel.stats[BestRanked], sel.stats[CurrentRow])

\* C2: with current prefs, no active lock and a current primary that still
\* qualifies, the returned primary method is the best-ranked method if that
\* method is not the current primary and its success rate is at least the
\* current primary's plus promote_margin, and the current primary otherwise.
PromotionHysteresis ==
    HysteresisCase =>
        /\ sel.result # <<>>
        /\ sel.result[1].primary_method
             = IF ShouldPromote THEN sel.stats[BestRanked].method
               ELSE sel.current[1].primary_method

\* a call in which a better method, but not by the margin, was not promoted
PromotionHysteresisWitness ==
    /\ HysteresisCase
    /\ sel.stats[BestRanked].method # sel.current[1].primary_method
    /\ sel.stats[BestRanked].successes * sel.stats[CurrentRow].attempts
         > sel.stats[CurrentRow].successes * sel.stats[BestRanked].attempts
    /\ ~ShouldPromote
    /\ sel.result[1].primary_method = sel.current[1].primary_method

\* the methods of sel.stats that qualify, in rank order, without method m
RankedWithout(m) ==
    LET NotM(st) == st.method # m
    IN  MethodNames(SelectSeq(SortDesc(SelectSeq(sel.stats, Qualifies)), NotM))

\* C16: re-affirmation: with no active lock, a current primary that still
\* qualifies and no promotion, the returned prefs keep the current
\* primary_method, last_changed_at and locked_until; fallback_methods is
\* refreshed to the latest ranking.
ReaffirmKeepsLockFields ==
    (HysteresisCase /\ ~ShouldPromote) =>
        /\ sel.result # <<>>
        /\ sel.result[1].primary_method = sel.current[1].primary_method
        /\ sel.result[1].last_changed_at = sel.current[1].last_changed_at
        /\ sel.result[1].locked_until = sel.current[1].locked_until
        /\ sel.result[1].fallback_methods = RankedWithout(sel.current[1].primary_method)

\* row a ranks above row b: higher success rate, or the same rate and a
\* lower median duration
RanksAbove(a, b) ==
    \/ a.successes * b.attempts > b.successes * a.attempts
    \/ /\ a.successes * b.attempts = b.successes * a.attempts
       /\ a.median_duration_ms < b.median_duration_ms

\* the row of sel.stats for method m
RowOf(m) == sel.stats[CHOOSE i \in 1..Len(sel.stats) : sel.stats[i].method = m]

\* a new primary is chosen: no current prefs, or a promotion
NewPrimaryCase ==
    /\ sel.pc = "returned"
    /\ \E i \in 1..Len(sel.stats) : Qualifies(sel.stats[i])
    /\ \/ sel.current = <<>>
       \/ HysteresisCase /\ ShouldPromote

\* C17: when no prefs exist or a promotion occurs and some method qualifies,
\* the primary is the qualifying method with the highest success rate
\* (lowest median duration among equal rates), the fallbacks are all other
\* qualifying methods in rank order, last_changed_at is now and locked_until
\* is now + cooldown_hours.
NewPrimaryIsBestRanked ==
    NewPrimaryCase =>
        /\ sel.result # <<>>
        /\ LET r == sel.result[1]
               fb == r.fallback_methods
           IN  /\ Qualifies(RowOf(r.primary_method))
               /\ \A i \in 1..Len(sel.stats) :
                    Qualifies(sel.stats[i]) => ~RanksAbove(sel.stats[i], RowOf(r.primary_method))
               /\ {fb[i] : i \in 1..Len(fb)}
                    = {sel.stats[i].method : i \in {j \in 1..Len(sel.stats) :
                            Qualifies(sel.stats[j])}} \ {r.primary_method}
               /\ \A i, j \in 1..Len(fb) :
                    i < j => (fb[i] # fb[j] /\ ~RanksAbove(RowOf(fb[j]), RowOf(fb[i])))
               /\ r.last_changed_at = sel.now
               /\ r.locked_until = sel.now + cooldown_hours

\* no current prefs, three methods: the first under-sampled, the two others
\* with the same success rate, the later one faster and made primary
NewPrimaryIsBestRankedWitness ==
    /\ sel.pc = "returned"
    /\ sel.current = <<>>
    /\ Len(sel.stats) = 3
    /\ ~Qualifies(sel.stats[1])
    /\ Qualifies(sel.stats[2])
    /\ RanksAbove(sel.stats[3], sel.stats[2])
    /\ sel.stats[3].successes * sel.stats[2].attempts
         = sel.stats[2].successes * sel.stats[3].attempts
    /\ sel.result # <<>>
    /\ sel.result[1].primary_method = sel.stats[3].method
    /\ sel.result[1].fallback_methods = <<sel.stats[2].method>>

\* a call of select_method_prefs in which no method qualifies has returned
\* its current argument (None when there is none)
NoQualifierKeepsCurrent ==
    (/\ sel.pc = "returned"
     /\ \A i \in 1..Len(sel.stats) : ~Qualifies(sel.stats[i]))
    => sel.result = sel.current

\* the end of a run for a domain none of whose methods qualifies leaves the
\* stored prefs of the domain as they are, absent if they were absent
NoQualifierStoresNothing ==
    \A d \in Domains :
        (/\ pc = "update"
         /\ RunDomain = d
         /\ \A m \in Methods : ~Qualifies(stats[d][m]))
        => prefs'[d] = prefs[d]

\* C18: if no method of the domain has attempts >= min_attempts,
\* select_method_prefs returns the current prefs unchanged, locked or not,
\* and None when there are none, and update_domain_prefs then stores no
\* prefs row for the domain.
UnderSampledKeepsPrefs ==
    []NoQualifierKeepsCurrent /\ [][NoQualifierStoresNothing]_vars

\* a call with unlocked current prefs and only under-sampled rows that
\* returned the current prefs
UnderSampledKeepsPrefsWitness ==
    /\ sel.pc = "returned"
    /\ sel.current # <<>>
    /\ ~LockedAt(sel.current[1], sel.now)
    /\ Len(sel.stats) >= 2
    /\ \A i \in 1..Len(sel.stats) :
         /\ sel.stats[i].attempts >= 1
         /\ ~Qualifies(sel.stats[i])
    /\ sel.result = sel.current

-----------------------------------------------------------------------------
(* Properties of the stored prefs (Spec) *)

\* the success rate of a statistics row is below min_success_rate
BelowMinSuccessRate(row) ==
    row.attempts = 0
    \/ row.successes * min_success_rate_den < min_success_rate_num * row.attempts

\* the step recomputes the prefs of domain d at the end of a run
Recomputes(d) == pc = "update" /\ pc' = "done" /\ RunDomain = d

\* after the recomputation the stored drift_flag tells whether the stored
\* primary's success rate is below min_success_rate
DriftFlagFresh ==
    \A d \in Domains :
        (Recomputes(d) /\ prefs'[d] # <<>>) =>
            (prefs'[d][1].drift_flag
               <=> BelowMinSuccessRate(stats'[d][prefs'[d][1].primary_method]))

\* a recomputation changes an existing primary only by a promotion
PrimaryChangesOnlyByPromotion ==
    \A d \in Domains :
        (/\ Recomputes(d)
         /\ prefs[d] # <<>>
         /\ prefs'[d][1].primary_method # prefs[d][1].primary_method)
        => /\ ~LockedAt(prefs[d][1], now)
           /\ RateAheadByMargin(stats[d][prefs'[d][1].primary_method],
                                stats[d][prefs[d][1].primary_method])

\* C19: after every recomputation of a domain's prefs at the end of a run,
\* also under an active cooldown lock, the stored drift_flag is true exactly
\* when the stored primary's success rate in the current statistics is below
\* min_success_rate; and drift_flag alone never changes primary_method.
DriftFlagTracksPrimary ==
    [][DriftFlagFresh /\ PrimaryChangesOnlyByPromotion]_vars

-----------------------------------------------------------------------------
(* Properties of _dedupe_items (DedupSpec) *)

\* positions of the items of a list that have the canonical URL u
SameUrlItems(items, u) ==
    {i \in 1..Len(items) : _canonical_url(items[i].url) = u}

OutIds == {dd.out[i].id : i \in 1..Len(dd.out)}

\* C7: the output of _dedupe_items holds no two items with the same
\* canonical URL.
DedupNoSharedCanonicalUrl ==
    dd.pc = "returned" =>
        \A i, j \in 1..Len(dd.out) :
            i # j => _canonical_url(dd.out[i].url) # _canonical_url(dd.out[j].url)

\* C8: when two input items have the same canonical URL and different
\* quality scores, the lower-quality one is not in the output and an item of
\* that URL at least as good as the higher-quality one is.
DedupHigherQualitySurvives ==
    dd.pc = "returned" =>
        \A a, b \in 1..Len(dd.items) :
            (/\ _canonical_url(dd.items[a].url) = _canonical_url(dd.items[b].url)
             /\ _item_quality_score(dd.items[a]) < _item_quality_score(dd.items[b]))
            => /\ dd.items[a].id \notin OutIds
               /\ \E k \in SameUrlItems(dd.items, _canonical_url(dd.items[b].url)) :
                    /\ dd.items[k].id \in OutIds
                    /\ _item_quality_score(dd.items[k])
                         >= _item_quality_score(dd.items[b])

\* C9: _dedupe_items applied to its own output returns that output.
DedupIdempotent ==
    dd.pc = "returned" => _dedupe_items(dd.out) = dd.out

\* C10: no two items of the output of _dedupe_items have similar titles
\* (similarity ratio of the normalized titles at least 0.92).
DedupNoSimilarTitles ==
    dd.pc = "returned" =>
        \A i, j \in 1..Len(dd.out) :
            i # j => ~_titles_similar(dd.out[i], dd.out[j])

-----------------------------------------------------------------------------
(* Properties of _postprocess_items (CapSpec) *)

\* the items of a list that have the domain d
DomainItems(items, d) == {i \in 1..Len(items) : _domain(items[i].url) = d}

\* the articles of the input after dedup, which the cap is applied to
AfterDedup == _dedupe_items(SelectSeq(dd.items, _is_article_item))

CapDomains == {_domain(u) : u \in CapUrls}

\* C11: after post-processing with cap k at most k items of any one domain
\* survive; when a domain has more than k items after dedup exactly k
\* survive, and no dropped item of the domain has a higher quality score
\* than a surviving one.
CapKeepsBestPerDomain ==
    dd.pc = "postprocessed" =>
        \A d \in CapDomains :
            LET before == DomainItems(AfterDedup, d)
                after == DomainItems(dd.out, d)
                kept == {dd.out[i].id : i \in after}
            IN  /\ Cardinality(after) <= dd.cap
                /\ Cardinality(before) > dd.cap =>
                     /\ Cardinality(after) = dd.cap
                     /\ \A i \in before :
                          AfterDedup[i].id \notin kept =>
                            \A j \in after :
                              _item_quality_score(dd.out[j])
                                >= _item_quality_score(AfterDedup[i])

-----------------------------------------------------------------------------
(* Properties of the pipeline's step on one candidate (PipeSpec) *)

\* the keyword gate lets the article through
KeywordGatePassed ==
    \/ ~pipe.keyword_rules.loaded
    \/ SumWeights(pipe.keyword_rules.matched) >= keywords_min_score_tenths

\* C12: with LLM mode disabled, an accepted article whose keyword score is
\* at or above the minimum yields exactly one DigestItem, with score None,
\* the topic of the candidate's source metadata and the first 3 sentences
\* of the body as summary.
LlmOffItemHasNoScore ==
    (pipe.pc = "returned" /\ ~pipe.llm_enabled /\ pipe.keyword_rules.loaded
     /\ KeywordGatePassed) =>
        /\ Len(pipe.items) = 1
        /\ pipe.items[1].score = <<>>
        /\ pipe.items[1].topic = TopicOf(pipe.candidate.topics)
        /\ LET sentences == _split_sentences(WithoutOuterBlanks(pipe.body))
           IN  pipe.items[1].summary
                 = <<SubSeq(sentences, 1, Min(max_sentences, Len(sentences)))>>

\* the LLM stages that were called for the candidate
StageFailed(i) == i <= Len(pipe.stages) /\ pipe.stages[i].kind = "raises"

SomeStageFailed == \E i \in 1..Len(pipe.stages) : StageFailed(i)

\* every stage that answered, answered with a JSON object
StagesAnsweredObjects ==
    \A i \in 1..Len(pipe.stages) : pipe.stages[i].kind # "no object"

RelevanceSaidNotRelevant ==
    /\ Len(pipe.stages) >= 1
    /\ pipe.stages[1].kind = "object"
    /\ pipe.stages[1].relevant = <<FALSE>>

GateFinished == pipe.pc \in {"returned", "raised"} /\ pipe.llm_enabled

\* what the item holds of a stage that failed: the article's own score and
\* no rationale, the topic of the source metadata, the first sentences
FailedStagesSkipped ==
    /\ StageFailed(1) =>
         /\ pipe.items[1].score = pipe.article[1].score
         /\ pipe.items[1].why_it_matters = <<>>
    /\ StageFailed(2) => pipe.items[1].topic = TopicOf(pipe.candidate.topics)
    /\ StageFailed(3) => pipe.items[1].summary = _summarize_text(pipe.body)

KeywordScoreTenths ==
    LET Found(name) == \E t \in pipe.keyword_rules.matched : t.term = name
    IN  (IF Found("lloyd's") THEN 30 ELSE 0) + (IF Found("syndicate") THEN 20 ELSE 0)
        + (IF Found("reinsurance") THEN 15 ELSE 0)

RejectedByKeywordGate ==
    pipe.keyword_rules.loaded /\ KeywordScoreTenths < keywords_min_score_tenths

\* the calls made are an initial part of relevance, classify, summarise
StagesInFixedOrder ==
    /\ Len(pipe.stages) <= 3
    /\ Len(pipe.stages) >= 1 => pipe.stages[1] \in RelevanceOutcomes
    /\ Len(pipe.stages) >= 2 => pipe.stages[2] \in ClassifyOutcomes
    /\ Len(pipe.stages) >= 3 => pipe.stages[3] \in SummariseOutcomes
    /\ (pipe.llm_enabled /\ ~RejectedByKeywordGate) => Len(pipe.stages) >= 1
    /\ ~pipe.llm_enabled => pipe.stages = <<>>

\* C21: the gate runs keyword gate, relevance, classify, summarise in this
\* order and a rejection ends it: a candidate whose keyword score is below
\* min_score causes no LLM call, a candidate whose relevance answer has
\* relevant=False causes no classify and no summarise call, and in both
\* cases no DigestItem is produced.
RejectionShortCircuits ==
    (pipe.pc \in {"returned", "raised"}) =>
        /\ StagesInFixedOrder
        /\ pipe.rejection = <<"keyword">> <=> RejectedByKeywordGate
        /\ RejectedByKeywordGate =>
              /\ pipe.pc = "returned"
              /\ pipe.stages = <<>>
              /\ pipe.items = <<>>
        /\ RelevanceSaidNotRelevant =>
              /\ pipe.pc = "returned"
              /\ Len(pipe.stages) = 1
              /\ pipe.items = <<>>
              /\ pipe.rejection = <<"llm_relevance">>

\* a candidate that passed a loaded keyword gate and was rejected by the
\* relevance answer
RejectionShortCircuitsWitness ==
    /\ pipe.pc = "returned"
    /\ pipe.keyword_rules.loaded
    /\ ~RejectedByKeywordGate
    /\ RelevanceSaidNotRelevant
    /\ pipe.items = <<>>

\* the non-blank bullets the summarise stage returned for the item (none
\* when the stage was not called, failed or answered without bullets)
ReturnedBullets ==
    IF /\ Len(pipe.stages) = 3
       /\ pipe.stages[3].kind = "object"
       /\ pipe.stages[3].bullets # <<>>
    THEN LET NotBlank(b) == b # " " /\ b # ""
         IN  SelectSeq(pipe.stages[3].bullets[1], NotBlank)
    ELSE <<>>

\* the first sentences of the body
FirstSentences ==
    LET sentences == _split_sentences(WithoutOuterBlanks(pipe.body))
    IN  SubSeq(sentences, 1, Min(max_sentences, Len(sentences)))

\* C22: every DigestItem produced for an article with a non-empty body has
\* a non-empty summary: the non-blank bullets of the summarise stage when
\* it returned at least one, and in every other case (stage disabled,
\* failed, no bullets, only blank bullets) the first sentences of the body.
SummaryNeverEmpty ==
    (pipe.pc = "returned" /\ Len(pipe.items) = 1 /\ pipe.body # <<>>) =>
        /\ pipe.items[1].summary # <<>>
        /\ pipe.items[1].summary[1] # <<>>
        /\ pipe.items[1].summary[1]
              = IF ReturnedBullets # <<>> THEN ReturnedBullets ELSE FirstSentences

-----------------------------------------------------------------------------
(* Properties of evaluate_text (HeurSpec) *)

HeurChars == Len(Strip(heur.text))

HeurWords == WordCount(Strip(heur.text))

\* the fraction r equals min(chars / min_chars, words / min_words)
IsMinOfRatios(r) ==
    LET rc == <<HeurChars, heur.min_chars>>
        rw == <<HeurWords, heur.min_words>>
    IN  IF RateLt(rw, rc) THEN RateEq(r, rw) ELSE RateEq(r, rc)

\* C14: evaluate_text decides ACCEPT exactly when the stripped text has at
\* least min_chars characters and at least min_words words; the score is
\* min(chars/min_chars, words/min_words), below 1 for TOO_SHORT and at least
\* 1 for ACCEPT; an empty or blank text yields (TOO_SHORT, 0).
HeuristicDecision ==
    heur.pc = "returned" =>
        LET r == heur.result[1]
        IN  /\ r.decision \in {"ACCEPT", "TOO_SHORT"}
            /\ r.decision = "ACCEPT"
                 <=> (HeurChars >= heur.min_chars /\ HeurWords >= heur.min_words)
            /\ IsMinOfRatios(r.score)
            /\ r.decision = "TOO_SHORT" => RateLt(r.score, <<1, 1>>)
            /\ r.decision = "ACCEPT" => ~RateLt(r.score, <<1, 1>>)
            /\ HeurChars = 0 => (r.decision = "TOO_SHORT" /\ RateEq(r.score, <<0, 1>>))

\* a text exactly at both thresholds, with white space around it, accepted
HeuristicDecisionWitness ==
    /\ heur.pc = "returned"
    /\ Len(heur.text) > HeurChars
    /\ HeurChars = heur.min_chars
    /\ HeurWords = heur.min_words
    /\ HeurWords > 1
    /\ heur.result[1].decision = "ACCEPT"
    /\ RateEq(heur.result[1].score, <<1, 1>>)

-----------------------------------------------------------------------------
(* Properties of the URL canonicalizers (CanonSpec) *)

\* the query parameters of a URL text that are no utm_* parameters
NonUtmPairs(url) ==
    LET Kept(pair) == ~PairIsUtm(pair)
    IN  SelectSeq(parse_qsl(urlsplit(url).query), Kept)

\* two URL texts that differ only in utm_* parameters and the fragment
DifferOnlyInTracking(u, v) ==
    /\ urlsplit(u).scheme = urlsplit(v).scheme
    /\ urlsplit(u).netloc = urlsplit(v).netloc
    /\ urlsplit(u).path = urlsplit(v).path
    /\ NonUtmPairs(u) = NonUtmPairs(v)

CanonicalizedTwiceIsSame ==
    /\ canonical_url_text(dd.script, dd.keeps_empty_authority) = dd.script
    /\ canonicalise_url(dd.discovery, dd.keeps_empty_authority) = dd.discovery

TrackingIgnored ==
    \A v \in UrlTexts :
        DifferOnlyInTracking(dd.url, v) =>
            /\ canonical_url_text(v, dd.keeps_empty_authority) = dd.script
            /\ canonicalise_url(v, dd.keeps_empty_authority) = dd.discovery

OtherParametersKept ==
    /\ NonUtmPairs(dd.discovery) = NonUtmPairs(dd.url)
    /\ NonUtmPairs(dd.script) = NonUtmPairs(dd.url)

\* C15: canonicalizing a canonical URL returns it unchanged, two URLs that
\* differ only in utm_* query parameters and the fragment have the same
\* canonical form, and the other query parameters are kept.
CanonicalizationIdempotent ==
    dd.pc = "canonicalized" =>
        /\ CanonicalizedTwiceIsSame
        /\ TrackingIgnored
        /\ OtherParametersKept

-----------------------------------------------------------------------------
(* extractors/engine.py: the extractor order under any stored prefs row *)

\* runs of one behaviour
MaxOrderRuns == 2

\* a method name of an earlier deployment, no longer registered
RetiredMethod == "playwright"

\* fallback_methods lists a domain_method_prefs row may hold
StoredFallbacks ==
    {<<>>,
     <<"crawl4ai">>,
     <<"crawl4ai", "readability">>,
     <<RetiredMethod, "bs4_heuristic", "trafilatura">>,
     <<"readability", "bs4_heuristic", "readability">>}

\* the rows get_domain_prefs may return for a domain
StoredRows(d) ==
    {[domain |-> d,
      primary_method |-> p,
      fallback_methods |-> f,
      confidence |-> <<1, 1>>,
      last_changed_at |-> 0,
      locked_until |-> cooldown_hours,
      drift_flag |-> flag,
      drift_notes |-> NoTime]
     : p \in Methods \cup {RetiredMethod}, f \in StoredFallbacks, flag \in BOOLEAN}

OrderInit ==
    /\ stats = [d \in Domains |-> [m \in Methods |-> NoRow]]
    /\ \E stored \in [Domains -> {<<>>} \cup UNION {{<<r>> : r \in StoredRows(d)} : d \in Domains}] :
          /\ \A d \in Domains : stored[d] # <<>> => stored[d][1].domain = d
          /\ prefs = stored
    /\ articles = [c \in CandidateIds |-> <<>>]
    /\ now = 0
    /\ pc = "idle"
    /\ cand = NoCandidate
    /\ order = <<>>
    /\ idx = 1
    /\ runLog = <<>>
    /\ article = <<>>
    /\ returned = <<>>
    /\ runs = 0
    /\ sel = [pc |-> "off"]
    /\ dd = [pc |-> "off"]
    /\ pipe = [pc |-> "off"]
    /\ heur = [pc |-> "off"]

OrderNext ==
    \/ \E c \in Candidates : runs < MaxOrderRuns /\ StartRun(c)
    \/ Attempt
    \/ ExtractRaises
    \/ FinishRun

OrderSpec == OrderInit /\ [][OrderNext]_vars

-----------------------------------------------------------------------------
(* Properties of the extractor order (OrderSpec) *)

\* where name stands in seq (0 when it does not)
PositionIn(seq, name) ==
    IF Contains(seq, name)
    THEN CHOOSE i \in 1..Len(seq) : seq[i] = name /\ \A j \in 1..(i - 1) : seq[j] # name
    ELSE 0

\* the prefs row the order of the run was chosen under
RunPrefs ==
    IF HasDomain(RunDomain) THEN prefs[RunDomain] ELSE <<>>

\* the order names every registered extractor exactly once
OrderIsPermutation ==
    InRun =>
        /\ Len(order) = Len(Extractors)
        /\ \A m \in Methods : Cardinality({i \in 1..Len(order) : order[i] = m}) = 1

\* primary first, then the fallbacks as recorded, then the rest as registered
OrderShape ==
    (pc \in {"loop", "update", "raised"}) =>
        IF RunPrefs = <<>> THEN order = Extractors
        ELSE LET p == RunPrefs[1]
                 Named(m) == m = p.primary_method \/ Contains(p.fallback_methods, m)
                 IsFallback(m) == m # p.primary_method /\ Contains(p.fallback_methods, m)
             IN  /\ p.primary_method \in Methods => order[1] = p.primary_method
                 /\ \A f, g \in Methods :
                       (/\ IsFallback(f) /\ IsFallback(g)
                        /\ PositionIn(p.fallback_methods, f) < PositionIn(p.fallback_methods, g))
                       => PositionIn(order, f) < PositionIn(order, g)
                 /\ \A f, r \in Methods :
                       (IsFallback(f) /\ ~Named(r))
                       => PositionIn(order, f) < PositionIn(order, r)
                 /\ \A r, s \in Methods :
                       (/\ ~Named(r) /\ ~Named(s)
                        /\ PositionIn(Extractors, r) < PositionIn(Extractors, s))
                       => PositionIn(order, r) < PositionIn(order, s)

\* the run went through the whole order and no extractor accepted
NoExtractorAccepted ==
    /\ pc \in {"update", "done"}
    /\ \A i \in 1..Len(runLog) : ~Accepted(runLog[i])

\* such a run attempted every registered extractor exactly once
AllAttemptedOnce ==
    NoExtractorAccepted =>
        \A m \in Methods :
            Cardinality({i \in 1..Len(runLog) : runLog[i].method = m}) = 1

-----------------------------------------------------------------------------
(* reporting/digest_renderer.py *)

\* DigestConfig: min_relevance = 0.4 (scores are kept in tenths), max_items = 40
min_relevance_tenths == 4

max_items == 40

\* the longest list of items render_digest is called with
MaxDigestItems == 4

\* item.score or 0.0
ScoreOrZero(item) == IF item.score = <<>> THEN 0 ELSE item.score[1]

\* a selection that drops the items without a score (faulty variant of
\* _select_items)
_select_items_with_known_score(items, config) ==
    LET Passes(item) == item.score # <<>> /\ item.score[1] >= config.min_relevance
        filtered == SelectSeq(items, Passes)
        n == Len(filtered)
        SortsBefore(i, j) ==
            \/ ScoreOrZero(filtered[i]) > ScoreOrZero(filtered[j])
            \/ ScoreOrZero(filtered[i]) = ScoreOrZero(filtered[j]) /\ i < j
        Position(i) == 1 + Cardinality({j \in 1..n : j # i /\ SortsBefore(j, i)})
        sorted_items == [k \in 1..n |-> filtered[CHOOSE i \in 1..n : Position(i) = k]]
    IN  SubSeq(sorted_items, 1, Min(config.max_items, n))

\* _select_items: the floor, the stable sort by (score or 0.0) descending
\* (sort(reverse=True) keeps equal keys in their order), the first max_items
_select_items(items, config) ==
    LET Passes(item) == item.score = <<>> \/ item.score[1] >= config.min_relevance
        filtered == SelectSeq(items, Passes)
        n == Len(filtered)
        SortsBefore(i, j) ==
            \/ ScoreOrZero(filtered[i]) > ScoreOrZero(filtered[j])
            \/ ScoreOrZero(filtered[i]) = ScoreOrZero(filtered[j]) /\ i < j
        Position(i) == 1 + Cardinality({j \in 1..n : j # i /\ SortsBefore(j, i)})
        sorted_items == [k \in 1..n |-> filtered[CHOOSE i \in 1..n : Position(i) = k]]
    IN  SubSeq(sorted_items, 1, Min(config.max_items, n))

\* the scores of the items: None, or a number in tenths (a heuristic score
\* as engine.py stores it, or an LLM confidence)
DigestScores == {<<>>, <<0>>, <<3>>, <<4>>, <<9>>}

\* the configurations: the default one, and smaller floors and sizes
DigestConfigs ==
    [min_relevance : {0, min_relevance_tenths}, max_items : {1, 2, max_items}]

DigestInit ==
    /\ EngineInit
    /\ sel = [pc |-> "off"]
    /\ pipe = [pc |-> "off"]
    /\ heur = [pc |-> "off"]
    /\ \E n \in 0..MaxDigestItems : \E scores \in [1..n -> DigestScores] :
       \E config \in DigestConfigs :
         dd = [pc |-> "select",
               items |-> [i \in 1..n |-> [id |-> i, score |-> scores[i]]],
               config |-> config,
               out |-> <<>>]

\* render_digest, line 41: selected = _select_items(list(items), config)
SelectItemsCall ==
    /\ dd.pc = "select"
    /\ dd' = [dd EXCEPT !.pc = "selected", !.out = _select_items(dd.items, dd.config)]
    /\ UNCHANGED <<stats, prefs, articles, now, pc, cand, order, idx, runLog, article,
                   returned, runs, sel, pipe, heur>>

DigestNext == SelectItemsCall

DigestSpec == DigestInit /\ [][DigestNext]_vars

-----------------------------------------------------------------------------
(* Properties of _select_items (DigestSpec) *)

\* the items of the input at or above the floor, and those without a score
PassFloor ==
    {i \in 1..Len(dd.items) :
        dd.items[i].score = <<>> \/ dd.items[i].score[1] >= dd.config.min_relevance}

SelectedIds == {dd.out[k].id : k \in 1..Len(dd.out)}

\* C24: the items selected for rendering hold no item with a known score
\* below min_relevance, lose no item to the floor because its score is
\* unknown, and are at most max_items; when more than max_items pass the
\* floor, those with the highest scores are kept, an unknown score counting
\* as 0.
FloorAndSizeCap ==
    dd.pc = "selected" =>
        /\ \A k \in 1..Len(dd.out) :
              /\ dd.out[k] = dd.items[dd.out[k].id]
              /\ dd.out[k].id \in PassFloor
        /\ \A k, l \in 1..Len(dd.out) : dd.out[k].id = dd.out[l].id => k = l
        /\ Len(dd.out) = Min(Cardinality(PassFloor), dd.config.max_items)
        /\ \A i \in PassFloor \ SelectedIds :
              \A k \in 1..Len(dd.out) :
                  ScoreOrZero(dd.out[k]) >= ScoreOrZero(dd.items[i])

\* more items pass the floor than fit: an item below the floor was dropped
\* by the floor, an item without a score passed it and was cut by the size
\* cap behind items with known scores
FloorAndSizeCapWitness ==
    /\ dd.pc = "selected"
    /\ Cardinality(PassFloor) > dd.config.max_items
    /\ Len(dd.out) = 2
    /\ \A k \in 1..Len(dd.out) : dd.out[k].score # <<>>
    /\ \E i \in 1..Len(dd.items) : i \notin PassFloor
    /\ \E i \in PassFloor \ SelectedIds : dd.items[i].score = <<>>

-----------------------------------------------------------------------------
(* scripts/render_digest_llm_compare.py: the social-post view *)

\* DIGEST_MAX_PER_DOMAIN, LINKEDIN_MAX_ITEMS and LINKEDIN_MIN_LONDON when
\* the environment does not set them
digest_max_per_domain == 5

linkedin_max_items == 12

linkedin_min_london == 3

\* the longest list of items build_linkedin_payload is called with
MaxLinkedinItems == 3

\* _item_text: the lower-cased title, why, url, source and bullets. An
\* item of the model carries in "mentions" the keywords that occur in its
\* why and its bullets; its title, url and source hold none of them.
_item_text(item) == item.mentions

\* "fca" in text or "financial conduct authority" in text or "warning" in text
IsRegulatorWarning(item) ==
    \E term \in {"fca", "financial conduct authority", "warning"} :
        term \in _item_text(item)

_is_london_market(item) ==
    \E keyword \in {"lloyd", "syndicate", "broker", "lma", "london market", "ppl",
                    "whitespace", "coverholder", "managing agent"} :
        keyword \in _item_text(item)

_move_fca_to_bottom(items) ==
    LET IsOther(item) == ~IsRegulatorWarning(item)
    IN  SelectSeq(items, IsOther) \o SelectSeq(items, IsRegulatorWarning)

\* seq[:n] for n >= 0
FirstN(seq, n) == SubSeq(seq, 1, Min(n, Len(seq)))

\* _select_linkedin_top ("item not in london" compares the items; the items
\* of a list differ in their ids)
_select_linkedin_top(items, min_london, limit) ==
    LET london == SelectSeq(items, _is_london_market)
        NotLondon(item) == \A i \in 1..Len(london) : london[i] # item
        other == SelectSeq(items, NotLondon)
        first == FirstN(london, min_london)
        remaining == limit - Len(first)
        selected == IF remaining > 0 THEN first \o FirstN(other, remaining) ELSE first
    IN  FirstN(selected, limit)

\* build_linkedin_payload: the "items" of the payload returned
build_linkedin_payload(items, max_per_domain, min_london, limit) ==
    _select_linkedin_top(_move_fca_to_bottom(_postprocess_items(items, max_per_domain)),
                         min_london, limit)

\* the inputs: articles of two domains whose why and bullets mention the
\* London market, a regulator warning, both or neither
LinkedinUrls ==
    {[scheme |-> "https", netloc |-> "a.com", path |-> <<"news", "p1">>, slashes |-> 0,
      query |-> <<>>, fragment |-> ""],
     [scheme |-> "https", netloc |-> "b.com", path |-> <<"news", "p3">>, slashes |-> 0,
      query |-> <<>>, fragment |-> ""]}

LinkedinMentions == {{}, {"lloyd"}, {"warning"}, {"syndicate", "fca"}}

LinkedinShapes ==
    [url : LinkedinUrls, title : CapTitles, mentions : LinkedinMentions]

LinkedinItems(shapes) ==
    [i \in 1..Len(shapes) |->
        [id |-> i, url |-> shapes[i].url, title |-> shapes[i].title,
         excerpt_len |-> 0, bullets |-> 0, why |-> shapes[i].mentions # {},
         source_id |-> "", mentions |-> shapes[i].mentions]]

\* (LINKEDIN_MIN_LONDON, LINKEDIN_MAX_ITEMS): the defaults and smaller values
LinkedinLimits ==
    {[min_london |-> linkedin_min_london, limit |-> linkedin_max_items],
     [min_london |-> 1, limit |-> 2],
     [min_london |-> 0, limit |-> 1]}

LinkedinInit ==
    /\ EngineInit
    /\ sel = [pc |-> "off"]
    /\ pipe = [pc |-> "off"]
    /\ heur = [pc |-> "off"]
    /\ \E n \in 0..MaxLinkedinItems : \E shapes \in [1..n -> LinkedinShapes] :
       \E limits \in LinkedinLimits :
         dd = [pc |-> "linkedin", items |-> LinkedinItems(shapes), limits |-> limits,
               out |-> <<>>]

\* the call build_linkedin_payload(payload, run_date)
BuildLinkedinPayload ==
    /\ dd.pc = "linkedin"
    /\ dd' = [dd EXCEPT !.pc = "linkedin built",
                        !.out = build_linkedin_payload(dd.items, digest_max_per_domain,
                                                       dd.limits.min_london,
                                                       dd.limits.limit)]
    /\ UNCHANGED <<stats, prefs, articles, now, pc, cand, order, idx, runLog, article,
                   returned, runs, sel, pipe, heur>>

LinkedinNext == BuildLinkedinPayload

LinkedinSpec == LinkedinInit /\ [][LinkedinNext]_vars

-----------------------------------------------------------------------------
(* Properties of build_linkedin_payload (LinkedinSpec) *)

\* C25: in the item list build_linkedin_payload returns, no item flagged as
\* regulator warning ('fca', 'financial conduct authority' or 'warning' in
\* its text) stands before an item that is not flagged, also after the
\* London-market quota selection.
RegulatorWarningsLast ==
    dd.pc = "linkedin built" =>
        \A i, j \in 1..Len(dd.out) :
            (i < j /\ IsRegulatorWarning(dd.out[i])) => IsRegulatorWarning(dd.out[j])

-----------------------------------------------------------------------------
(* pipeline.py: the loop of run_pipeline over the candidates *)

\* the longest list of candidates of a run
MaxPipelineCandidates == 3

PipelineDomains == {"a.com", "b.com"}

\* the candidates of a run, each known by its position and its domain
PipelineCandidates ==
    UNION {[1..n -> PipelineDomains] : n \in 1..MaxPipelineCandidates}

\* run_pipeline at the head of its loop (line 132) with postgres connected;
\* "failing" are the domains for which a read of the store may raise
\* during the run
PipelineInit ==
    /\ EngineInit
    /\ sel = [pc |-> "off"]
    /\ dd = [pc |-> "off"]
    /\ heur = [pc |-> "off"]
    /\ \E candidates \in PipelineCandidates, failing \in SUBSET PipelineDomains :
         pipe = [pc |-> "fetch",
                 candidates |-> candidates,
                 failing |-> failing,
                 idx |-> 1,
                 accepted |-> FALSE,
                 fetched |-> {},
                 extracted |-> {},
                 gated |-> {}]

\* the domain of the candidate the loop is at
CurrentDomain == pipe.candidates[pipe.idx]

\* "continue", or the end of the loop body: on to the next candidate
NextCandidate(p) == [p EXCEPT !.pc = "fetch", !.idx = p.idx + 1, !.accepted = FALSE]

\* lines 141-157: fetcher.fetch; a failed fetch or a PDF is counted and the
\* loop continues
Fetch ==
    /\ pipe.pc = "fetch"
    /\ pipe.idx <= Len(pipe.candidates)
    /\ \E ok \in BOOLEAN :
         pipe' = IF ok
                 THEN [pipe EXCEPT !.pc = "order", !.fetched = @ \cup {pipe.idx}]
                 ELSE NextCandidate(pipe)
    /\ UNCHANGED <<stats, prefs, articles, now, pc, cand, order, idx, runLog, article,
                   returned, runs, sel, dd, heur>>

\* line 158, engine.py lines 32-37: _order_extractors reads the prefs of
\* the domain; neither _order_extractors, nor run, nor the loop of run_pipeline
\* has an exception handler, so an exception of get_domain_prefs leaves
\* run_pipeline
OrderExtractors ==
    /\ pipe.pc = "order"
    /\ \E raises \in {r \in BOOLEAN : r => CurrentDomain \in pipe.failing} :
         pipe' = IF raises
                 THEN [pipe EXCEPT !.pc = "pipeline raised"]
                 ELSE [pipe EXCEPT !.pc = "run"]
    /\ UNCHANGED <<stats, prefs, articles, now, pc, cand, order, idx, runLog, article,
                   returned, runs, sel, dd, heur>>

\* engine.py lines 38-112: the attempts of the run, until one is accepted
\* or every extractor was tried
RunExtractors ==
    /\ pipe.pc = "run"
    /\ \E accepted \in BOOLEAN :
         pipe' = [pipe EXCEPT !.pc = "update", !.accepted = accepted]
    /\ UNCHANGED <<stats, prefs, articles, now, pc, cand, order, idx, runLog, article,
                   returned, runs, sel, dd, heur>>

\* engine.py lines 113-119: update_domain_prefs reads the method statistics
\* and the prefs of the domain (postgres_repo.py lines 347-356), again with
\* no handler up to the caller of run_pipeline; then pipeline.py lines
\* 159-162: no article, continue
UpdateDomainPrefs ==
    /\ pipe.pc = "update"
    /\ \E raises \in {r \in BOOLEAN : r => CurrentDomain \in pipe.failing} :
         pipe' = IF raises
                 THEN [pipe EXCEPT !.pc = "pipeline raised"]
                 ELSE IF pipe.accepted
                 THEN [pipe EXCEPT !.pc = "gate", !.extracted = @ \cup {pipe.idx}]
                 ELSE NextCandidate(pipe)
    /\ UNCHANGED <<stats, prefs, articles, now, pc, cand, order, idx, runLog, article,
                   returned, runs, sel, dd, heur>>

\* lines 163-175: _article_to_items
GateArticle ==
    /\ pipe.pc = "gate"
    /\ pipe' = NextCandidate([pipe EXCEPT !.gated = @ \cup {pipe.idx}])
    /\ UNCHANGED <<stats, prefs, articles, now, pc, cand, order, idx, runLog, article,
                   returned, runs, sel, dd, heur>>

\* lines 177-225: after the loop, the digest and the PipelineResult
ReturnResult ==
    /\ pipe.pc = "fetch"
    /\ pipe.idx > Len(pipe.candidates)
    /\ pipe' = [pipe EXCEPT !.pc = "pipeline returned"]
    /\ UNCHANGED <<stats, prefs, articles, now, pc, cand, order, idx, runLog, article,
                   returned, runs, sel, dd, heur>>

PipelineNext ==
    \/ Fetch
    \/ OrderExtractors
    \/ RunExtractors
    \/ UpdateDomainPrefs
    \/ GateArticle
    \/ ReturnResult

PipelineSpec == PipelineInit /\ [][PipelineNext]_vars

\* the loop is not held up: every step of it is taken
PipelineFairSpec == PipelineSpec /\ WF_vars(PipelineNext)

-----------------------------------------------------------------------------
(* Properties of run_pipeline (PipelineFairSpec) *)

\* C26: when reading a domain's statistics or prefs raises while a
\* candidate of the domain is processed, run_pipeline abandons that domain's
\* work only: it never raises, and it returns a PipelineResult after the
\* loop has taken up every later candidate.
StoreFailureAbandonsDomainOnly ==
    /\ [](pipe.pc # "pipeline raised")
    /\ <>(pipe.pc = "pipeline returned" /\ pipe.idx > Len(pipe.candidates))

-----------------------------------------------------------------------------
(* Two pipeline processes running ExtractionEngine.run for one domain *)

Runs == {1, 2}

OtherRun(r) == 3 - r

RaceDomain == CHOOSE d \in Domains : TRUE

\* the runs of the domain before the two runs of the race
MaxPriorRuns == 2

\* the duration of every attempt of the model
RaceDuration == 40

\* which extractors accept the page of a run
PageAccepts ==
    {[m \in Methods |-> TRUE],
     [m \in Methods |-> m # "trafilatura"],
     [m \in Methods |-> m = "bs4_heuristic"]}

\* the attempts of a run on its order: every extractor up to the first
\* that accepts (engine.py lines 38-86)
AttemptsOf(extractors, accepts) ==
    LET hits == {i \in 1..Len(extractors) : accepts[extractors[i]]}
        last == IF hits = {} THEN Len(extractors)
                ELSE CHOOSE i \in hits : \A j \in hits : i <= j
    IN  [i \in 1..last |-> [method |-> extractors[i], success |-> accepts[extractors[i]]]]

\* the statistics after the attempts were recorded
RECURSIVE ApplyAttempts(_, _)
ApplyAttempts(table, attempts) ==
    IF attempts = <<>> THEN table
    ELSE ApplyAttempts(
             [table EXCEPT ![Head(attempts).method] =
                 record_method_attempt(@, Head(attempts).success, RaceDuration)],
             Tail(attempts))

\* what a run that has the store to itself leaves behind at time t
SerialRun(store, accepts, t) ==
    LET attempts == AttemptsOf(_order_extractors(Extractors, store.prefs), accepts)
        table == ApplyAttempts(store.stats, attempts)
    IN  {[stats |-> table, prefs |-> p]
         : p \in update_domain_prefs(RaceDomain, table, store.prefs, t)}

\* the stores that n runs, one after the other, leave of an empty store
RECURSIVE PriorStores(_)
PriorStores(n) ==
    IF n = 0 THEN {[stats |-> [m \in Methods |-> NoRow], prefs |-> <<>>]}
    ELSE UNION {UNION {SerialRun(store, accepts, 0) : accepts \in PageAccepts}
                : store \in PriorStores(n - 1)}

NotStarted == [pc |-> "start", attempts |-> <<>>, done |-> 0, stats_read |-> <<>>,
               prefs_read |-> <<>>]

RaceInit ==
    /\ \E store \in PriorStores(MaxPriorRuns) :
         /\ stats = [d \in Domains |-> IF d = RaceDomain THEN store.stats
                                       ELSE [m \in Methods |-> NoRow]]
         /\ prefs = [d \in Domains |-> IF d = RaceDomain THEN store.prefs ELSE <<>>]
    /\ articles = [c \in CandidateIds |-> <<>>]
    /\ now = 0
    /\ pc = "idle"
    /\ cand = NoCandidate
    /\ order = <<>>
    /\ idx = 1
    /\ runLog = <<>>
    /\ article = <<>>
    /\ returned = <<>>
    /\ runs = 0
    /\ dd = [pc |-> "off"]
    /\ pipe = [pc |-> "off"]
    /\ heur = [pc |-> "off"]
    /\ \E accepts \in [Runs -> PageAccepts] :
         sel = [pc |-> "race",
                prior |-> [stats |-> stats[RaceDomain], prefs |-> prefs[RaceDomain]],
                accepts |-> accepts,
                run |-> [r \in Runs |-> NotStarted],
                overlapped |-> FALSE,
                displaced |-> FALSE]

RaceUnchanged ==
    UNCHANGED <<articles, now, pc, cand, order, idx, runLog, article, returned, runs,
                dd, pipe, heur>>

\* engine.py lines 32-37: the run reads the prefs and orders the extractors
RaceStart(r) ==
    /\ sel.pc = "race"
    /\ sel.run[r].pc = "start"
    /\ sel' = [sel EXCEPT
                 !.run[r].pc = "attempt",
                 !.run[r].attempts =
                     AttemptsOf(_order_extractors(Extractors, prefs[RaceDomain]),
                                sel.accepts[r]),
                 !.overlapped = @ \/ sel.run[OtherRun(r)].pc \notin {"start", "done"}]
    /\ UNCHANGED <<stats, prefs>>
    /\ RaceUnchanged

\* engine.py lines 76-83: one attempt is recorded (one upsert statement)
RaceAttempt(r) ==
    /\ sel.pc = "race"
    /\ sel.run[r].pc = "attempt"
    /\ LET a == sel.run[r].attempts[sel.run[r].done + 1]
       IN  stats' = [stats EXCEPT ![RaceDomain][a.method] =
                        record_method_attempt(@, a.success, RaceDuration)]
    /\ sel' = [sel EXCEPT
                 !.run[r].done = @ + 1,
                 !.run[r].pc = IF sel.run[r].done + 1 = Len(sel.run[r].attempts)
                               THEN "read stats" ELSE "attempt"]
    /\ UNCHANGED prefs
    /\ RaceUnchanged

\* update_domain_prefs, line 348: stats = self.get_method_stats(domain)
RaceReadStats(r) ==
    /\ sel.pc = "race"
    /\ sel.run[r].pc = "read stats"
    /\ \E stats_list \in get_method_stats(stats[RaceDomain]) :
         sel' = [sel EXCEPT !.run[r].stats_read = stats_list,
                            !.run[r].pc = IF stats_list = <<>> THEN "done"
                                          ELSE "read prefs"]
    /\ UNCHANGED <<stats, prefs>>
    /\ RaceUnchanged

\* line 351: current = self.get_domain_prefs(domain)
RaceReadPrefs(r) ==
    /\ sel.pc = "race"
    /\ sel.run[r].pc = "read prefs"
    /\ sel' = [sel EXCEPT !.run[r].prefs_read = prefs[RaceDomain],
                          !.run[r].pc = "write"]
    /\ UNCHANGED <<stats, prefs>>
    /\ RaceUnchanged

\* lines 352-356: the decision on what was read, and the upsert of it
RaceWrite(r) ==
    /\ sel.pc = "race"
    /\ sel.run[r].pc = "write"
    /\ LET decided == select_method_prefs(RaceDomain, sel.run[r].stats_read,
                                          sel.run[r].prefs_read, now)
           stored == prefs[RaceDomain]
       IN  /\ prefs' = IF decided = <<>> THEN prefs
                       ELSE [prefs EXCEPT ![RaceDomain] = decided]
           /\ sel' = [sel EXCEPT
                        !.run[r].pc = "done",
                        !.displaced =
                            \/ @
                            \/ /\ decided # <<>>
                               /\ stored # <<>>
                               /\ stored[1].locked_until # NoTime
                               /\ stored[1].locked_until > now
                               /\ decided[1].primary_method # stored[1].primary_method]
    /\ UNCHANGED stats
    /\ RaceUnchanged

RaceNext ==
    \E r \in Runs :
        \/ RaceStart(r)
        \/ RaceAttempt(r)
        \/ RaceReadStats(r)
        \/ RaceReadPrefs(r)
        \/ RaceWrite(r)

RaceSpec == RaceInit /\ [][RaceNext]_vars

-----------------------------------------------------------------------------
(* Properties of concurrent runs (RaceSpec) *)

\* the prefs rows the two runs leave behind in one or the other serial order
SerialPrefs ==
    LET InOrder(first, second) ==
            UNION {{s2.prefs : s2 \in SerialRun(s1, sel.accepts[second], now)}
                   : s1 \in SerialRun(sel.prior, sel.accepts[first], now)}
    IN  InOrder(1, 2) \cup InOrder(2, 1)

BothRunsDone == \A r \in Runs : sel.run[r].pc = "done"

\* C27: two runs of one domain race on the preference update; runs that do
\* not overlap never displace a locked primary and leave the prefs of a
\* serial order, and there is an interleaving of overlapping runs in which
\* the row one run wrote (a new primary under a fresh lock) is overwritten
\* by the other run's decision on the older prefs, which no serial order of
\* the two runs leaves behind.
PrefsRaceOnlyWhenOverlapping ==
    /\ sel.displaced => sel.overlapped
    /\ (BothRunsDone /\ ~sel.overlapped) => prefs[RaceDomain] \in SerialPrefs

\* the race: both runs are done, one displaced the locked primary the other
\* had just stored, deciding on the prefs it read before, and the row left
\* is the result of no serial order
PrefsRaceOnlyWhenOverlappingWitness ==
    /\ BothRunsDone
    /\ sel.displaced
    /\ \E r \in Runs : sel.run[r].prefs_read = <<>>
                       /\ sel.run[OtherRun(r)].prefs_read = <<>>
    /\ prefs[RaceDomain] \notin SerialPrefs

-----------------------------------------------------------------------------
(* scripts/render_digest_llm_compare.py: _run_provider *)

\* the seconds the clock of the model runs for
MaxSeconds == 4

ProviderNames == {"local", "chatgpt", "deepseek"}

\* the outcome of the provider function, once it completes
CallOutcomes == {"content", "empty", "raises"}

\* when the provider function completes: <<>> is a call that never does
CallSeconds == {<<>>} \cup {<<n>> : n \in 1..(MaxSeconds - 1)}

\* _provider_timeout_seconds(name), from OLLAMA_TIMEOUT or OPENAI_TIMEOUT
TimeoutSeconds == 1..(MaxSeconds - 2)

\* str(exc) of the exception future.result raises at the timeout
TimeoutErrorText == ""

ProviderInit ==
    /\ EngineInit
    /\ sel = [pc |-> "off"]
    /\ dd = [pc |-> "off"]
    /\ pipe = [pc |-> "off"]
    /\ \E name \in ProviderNames : \E max_seconds \in TimeoutSeconds :
       \E call_seconds \in CallSeconds : \E outcome \in CallOutcomes :
         heur = [pc |-> "provider start",
                 name |-> name,
                 max_seconds |-> max_seconds,
                 call_seconds |-> call_seconds,
                 outcome |-> outcome,
                 elapsed |-> 0,
                 call |-> "not started",
                 result |-> "empty",
                 error |-> <<>>,
                 timed_out_at |-> NoTime,
                 returned_at |-> NoTime]

ProviderUnchanged ==
    UNCHANGED <<stats, prefs, articles, now, pc, cand, order, idx, runLog, article,
                returned, runs, sel, dd, pipe>>

\* what the caller takes from a completed call: the result, or the
\* exception caught at lines 139-142 and 148-151
TakeOutcome(h) ==
    [h EXCEPT !.result = IF h.outcome = "content" THEN "content" ELSE "empty",
              !.error = IF h.outcome = "raises" THEN <<"raised">> ELSE <<>>]

\* a second of wall-clock time passes
SecondPasses ==
    /\ heur.pc \in {"provider start", "local call", "future result", "executor exit"}
    /\ heur.elapsed < MaxSeconds
    /\ heur' = [heur EXCEPT !.elapsed = @ + 1]
    /\ ProviderUnchanged

\* lines 136-138: the local provider is called in the caller's thread
CallLocal ==
    /\ heur.pc = "provider start"
    /\ heur.name = "local"
    /\ heur' = [heur EXCEPT !.pc = "local call", !.call = "running"]
    /\ ProviderUnchanged

\* lines 138-142: the local call comes back
LocalCallReturns ==
    /\ heur.pc = "local call"
    /\ heur.call_seconds # <<>>
    /\ heur.elapsed >= heur.call_seconds[1]
    /\ heur' = [TakeOutcome(heur) EXCEPT !.pc = "record usage", !.call = "completed"]
    /\ ProviderUnchanged

\* lines 144-145: executor.submit(fn, payload, config, run_date)
SubmitCall ==
    /\ heur.pc = "provider start"
    /\ heur.name # "local"
    /\ heur' = [heur EXCEPT !.pc = "future result", !.call = "running"]
    /\ ProviderUnchanged

\* the worker thread: the provider function completes
CallCompletes ==
    /\ heur.pc \in {"future result", "executor exit"}
    /\ heur.call = "running"
    /\ heur.call_seconds # <<>>
    /\ heur.elapsed >= heur.call_seconds[1]
    /\ heur' = [heur EXCEPT !.call = "completed"]
    /\ ProviderUnchanged

\* line 147: future.result(timeout=max_seconds) hands over a completed call
FutureResult ==
    /\ heur.pc = "future result"
    /\ heur.call = "completed"
    /\ heur' = [TakeOutcome(heur) EXCEPT !.pc = "executor exit"]
    /\ ProviderUnchanged

\* lines 147-151: future.result raises TimeoutError after max_seconds
FutureTimeout ==
    /\ heur.pc = "future result"
    /\ heur.call = "running"
    /\ heur.elapsed >= heur.max_seconds
    /\ heur' = [heur EXCEPT !.pc = "executor exit",
                            !.result = "empty",
                            !.error = <<TimeoutErrorText>>,
                            !.timed_out_at = heur.elapsed]
    /\ ProviderUnchanged

\* the end of the with block of line 144: ThreadPoolExecutor.__exit__ is
\* shutdown(wait=True), which joins the worker thread
ExecutorExit ==
    /\ heur.pc = "executor exit"
    /\ heur.call = "completed"
    /\ heur' = [heur EXCEPT !.pc = "record usage"]
    /\ ProviderUnchanged

\* lines 153-181: usage and cost are recorded and the result returned
ReturnProviderResult ==
    /\ heur.pc = "record usage"
    /\ heur' = [heur EXCEPT !.pc = "provider returned", !.returned_at = heur.elapsed]
    /\ ProviderUnchanged

ProviderNext ==
    \/ SecondPasses
    \/ CallLocal
    \/ LocalCallReturns
    \/ SubmitCall
    \/ CallCompletes
    \/ FutureResult
    \/ FutureTimeout
    \/ ExecutorExit
    \/ ReturnProviderResult

ProviderSpec == ProviderInit /\ [][ProviderNext]_vars

\* the caller and a provider call that completes make progress; a call of
\* CallSeconds <<>> never completes
ProviderFairSpec == ProviderSpec /\ WF_vars(ProviderNext)

-----------------------------------------------------------------------------
(* Properties of _run_provider (ProviderFairSpec) *)

TimedOut == heur.pc # "off" /\ heur.timed_out_at # NoTime

ProviderReturned == heur.pc = "provider returned"

\* C28: a provider call through the worker that has not completed by its
\* timeout is a failed stage, with an empty result whatever the call
\* returns later, and _run_provider returns without waiting for the call:
\* it returns also when the call never completes, the call still running.
TimedOutCallIsAbandoned ==
    /\ [](TimedOut => heur.result = "empty" /\ heur.error # <<>>)
    /\ (TimedOut ~> ProviderReturned)

-----------------------------------------------------------------------------
(* A history of extraction runs for one domain, one run after the other *)

\* the runs of a history
MaxHistoryRuns == 7

NoHistory == [pc |-> "history", changed_at |-> NoTime, gap |-> NoTime,
              reaffirmed |-> FALSE, reaffirmed_in_gap |-> FALSE, replaced |-> FALSE]

HistoryInit ==
    /\ EngineInit
    /\ sel = NoHistory
    /\ dd = [pc |-> "off"]
    /\ pipe = [pc |-> "off"]
    /\ heur = [pc |-> "off"]

\* the stored primary_method is assigned for the first time or changes
PrimaryChanges(before, after) ==
    /\ after # <<>>
    /\ before = <<>> \/ before[1].primary_method # after[1].primary_method

\* the stored row is written again for the same primary, without a lock
PrimaryReaffirmed(before, after) ==
    /\ before # <<>>
    /\ after # before
    /\ after[1].primary_method = before[1].primary_method
    /\ after[1].locked_until = NoTime

\* select_method_prefs, line 72: the stored primary no longer qualifies
PrimaryNoLongerQualifies(table, current) ==
    /\ current # <<>>
    /\ \E m \in Methods : Qualifies(table[m])
    /\ ~LockActive(current, now)
    /\ ~Qualifies(table[current[1].primary_method])

\* ExtractionEngine.run, start to end, on a page the extractors of accepts
\* accept: the attempts are recorded and the prefs updated
HistoryRun ==
    /\ sel.pc = "history"
    /\ runs < MaxHistoryRuns
    /\ \E accepts \in PageAccepts :
       \E after \in SerialRun([stats |-> stats[RaceDomain], prefs |-> prefs[RaceDomain]],
                              accepts, now) :
         /\ stats' = [stats EXCEPT ![RaceDomain] = after.stats]
         /\ prefs' = [prefs EXCEPT ![RaceDomain] = after.prefs]
         /\ sel' = LET before == prefs[RaceDomain]
                   IN  IF PrimaryChanges(before, after.prefs)
                       THEN [sel EXCEPT
                               !.changed_at = now,
                               !.gap = IF sel.changed_at = NoTime THEN NoTime
                                       ELSE now - sel.changed_at,
                               !.reaffirmed = FALSE,
                               !.reaffirmed_in_gap = sel.reaffirmed,
                               !.replaced = @ \/ PrimaryNoLongerQualifies(after.stats,
                                                                           before)]
                       ELSE [sel EXCEPT
                               !.reaffirmed = @ \/ PrimaryReaffirmed(before, after.prefs),
                               !.replaced = @ \/ PrimaryNoLongerQualifies(after.stats,
                                                                           before)]
    /\ runs' = runs + 1
    /\ UNCHANGED <<articles, now, pc, cand, order, idx, runLog, article, returned, dd,
                   pipe, heur>>

HistoryNext == HistoryRun \/ Tick

HistorySpec == HistoryInit /\ [][HistoryNext]_vars

-----------------------------------------------------------------------------
(* Properties of a history of runs (HistorySpec) *)

\* C29: in a history of runs of one domain, one after the other on a clock
\* that never runs backwards, two consecutive changes of the stored
\* primary_method (the first assignment included) are at least
\* cooldown_hours apart, also when re-affirmations, which store
\* locked_until = None, happened between them.
PrimaryChangesCooldownApart ==
    /\ sel.gap # NoTime => sel.gap >= cooldown_hours
    /\ prefs[RaceDomain] # <<>> => prefs[RaceDomain][1].last_changed_at = sel.changed_at

\* the primary changed twice and was re-affirmed between the changes, which
\* took the lock off the row
PrimaryChangesCooldownApartWitness ==
    /\ sel.pc = "history"
    /\ sel.gap # NoTime
    /\ sel.reaffirmed_in_gap

\* C30: in a history of runs that starts on an empty statistics store,
\* whenever a MethodPrefs row is stored for the domain, its primary_method
\* has attempts >= min_attempts in the MethodStats of the domain and is
\* none of its fallback_methods; so no run finds a stored primary that no
\* longer qualifies, and the branch of select_method_prefs that replaces
\* such a primary without applying promote_margin is never taken.
StoredPrefsWellFormed ==
    /\ \A d \in Domains :
         prefs[d] # <<>> =>
             LET row == prefs[d][1]
             IN  /\ Qualifies(stats[d][row.primary_method])
                 /\ \A i \in 1..Len(row.fallback_methods) :
                        row.fallback_methods[i] # row.primary_method
    /\ sel.pc = "history" => ~sel.replaced

\* a run found the lock of the stored primary expired, looked the primary
\* up among the qualifying methods and stored it again, with fallbacks
StoredPrefsWellFormedWitness ==
    /\ sel.pc = "history"
    /\ sel.reaffirmed
    /\ prefs[RaceDomain] # <<>>
    /\ prefs[RaceDomain][1].fallback_methods # <<>>
    /\ prefs[RaceDomain][1].locked_until = NoTime

====
